---- MODULE Spec2Model ----
(***************************************************************************)
(* LightWatch_WEB page objects: the Condition Poller (wait_until) of the   *)
(* page objects, the paginated table readers built on it, the selector of  *)
(* the virtualized Devices dropdown, the modal-bearing Domain Management   *)
(* flows, run_step of the scenario scripts and the Alarms tile of the      *)
(* Management Map. Each has its own specification over the shared state.   *)
(*                                                                         *)
(* Time is counted in ticks of 50 ms since the call began (the call's      *)
(* start is tick 0), so the default interval of 200 ms is 4 ticks and the  *)
(* jitter cap of 0.05 s is 1 tick.                                         *)
(***************************************************************************)
EXTENDS Integers, Sequences, FiniteSets, TLC

\* ------------------------------------------------------------- bounds
MaxTimeout == 6      \* timeout_ms ranges over 0..MaxTimeout ticks
MaxInterval == 4     \* interval_ms ranges over 0..MaxInterval ticks
MaxStable == 2       \* stable_successes ranges over 0..MaxStable
MaxScript == 2       \* length of the predicate's scripted prefix
MaxEval == 1         \* ticks one evaluation of condition() may take
LongTimeout == 40    \* one long call: 2000 ms at the default interval
MaxPages == 12       \* pages of the table
MaxRows == 2         \* rows per page
LongTable == 62      \* pages of one long table, read by read_all_pages_from_table
MaxDevices == 4      \* device rows of the Devices dropdown
MaxWindow == 3       \* rows of the dropdown rendered at a time
MaxChips == 2        \* chips the selection summary shows before it adds '+N'
MaxRetries == 1      \* re-evaluations of all_selected_across_scroll followed
RowHeight == 10      \* height of a dropdown row, in pixels
LongList == 110      \* device rows of one long list
MaxSteps == 3        \* run_step lines of a scenario script
MaxCalls == 2        \* page-object calls of a step

\* ------------------------------------------------- program constants
JitterCap == 1       \* min(0.05, ...) seconds: 0.05 s is one tick
JitterDivisor == 4   \* base_sleep_s * 0.25
DefaultInterval == 4 \* interval_ms: int = 200
DefaultMaxPages == 10  \* get_all_events(max_pages: int = 10)
MAX_SCROLL_STEPS == 120     \* scroll steps of the alarms selected-reader
STABLE_STEPS_TO_STOP == 5   \* scrolls with nothing new before it stops
BottomTolerance == 2        \* pixels by which the bottom may be missed
ScrollNum == 9              \* scroll_down advances 0.9 of the viewport
ScrollDen == 10
AlarmsTimeoutMs == 5000     \* show_alarms: wait_until(..., timeout_ms=5000,
AlarmsIntervalMs == 200     \*                          interval_ms=200)
MAX_SCROLL_PAGES == 60

NA == 0 - 1          \* a field the error message does not carry

Min(a, b) == IF a <= b THEN a ELSE b
Max(a, b) == IF a >= b THEN a ELSE b

VARIABLES
    variant,           \* "simple": the copy in seven page objects; "advanced": DomainManagement.wait_until
    timeout_ms,        \* argument, in ticks
    interval_ms,       \* argument, in ticks
    stable_successes,  \* argument (advanced only; the simple poller has none)
    script,            \* the predicate: outcome of its first Len(script) calls
    tail,              \* the predicate: outcome of every later call
    pc,                \* position in wait_until
    now,               \* the clock, ticks since the call began
    attempts,          \* advanced: local variable attempts
    calls,             \* number of times condition() has been invoked
    last_exc,          \* local last_exc: 0 is None, n is the exception raised by call n
    consecutive,       \* advanced: local variable consecutive
    result,            \* "none" | "returned" | "raised"
    retval,            \* what the caller receives on return
    error,             \* the error raised to the caller
    trueRun,           \* observer: number of most recent polls that all returned true
    lastRaise,         \* observer: call number of the most recent predicate exception
    lastOutcome,       \* observer: outcome of the most recent poll
    slow,              \* observer: some evaluation took measurable time
    jittered,          \* observer: some sleep was lengthened by jitter
    pollStart,         \* observer: clock value at which the most recent poll began
    lastEval           \* observer: ticks the most recent evaluation took

pollerVars == <<variant, timeout_ms, interval_ms, stable_successes, script, tail,
                pc, now, attempts, calls, last_exc, consecutive, result, retval,
                error, trueRun, lastRaise, lastOutcome, slow, jittered, pollStart,
                lastEval>>

\* The paginated table readers and the table they read.
VARIABLES
    reader,            \* "events": get_all_events; "alarms": get_all_alarms; "services": read_all_pages_from_table
    pages,             \* the table: number of pages P
    rowsPerPage,       \* the table: rows per page R
    twin,              \* the table: row 2 equals row 1 in the identifying columns and differs in severity
    hasPager,          \* the table: a pagination control is rendered
    max_pages,         \* argument max_pages (0: not given / None)
    shown,             \* the page whose rows the table body (and the pager) currently shows
    target,            \* the page requested by the last click on Next
    rpc,               \* position in the reader
    iter,              \* events: iterations of `for _ in range(max_pages)` done; alarms: page_idx
    total_pages,       \* alarms: local total_pages
    all_rows,          \* local all_rows / results
    seen,              \* local seen
    before,            \* the snapshot taken before the click on Next
    rres,              \* "none" | "returned" | "raised"
    rerr               \* why the reader raised

readerVars == <<reader, pages, rowsPerPage, twin, hasPager, max_pages, shown, target,
                rpc, iter, total_pages, all_rows, seen, before, rres, rerr>>

\* The Devices dropdown, a list of the sentinel row "All" (item 0) and the
\* device rows 1..nDevices, and the routine working on it.
VARIABLES
    routine,         \* "set_all", "read_alarms", "read_services" or "none"
    nDevices,        \* N: device rows of the list
    window,          \* V: rows rendered (and visible) at a time
    virtualized,     \* whether rows outside the window are detached
    checked,         \* the device rows that are checked
    chipCap,         \* chips the summary shows before '+N'
    stuckAt,         \* scrollTop at which the scroller stops moving, or NA
    scrollTop,       \* el.scrollTop of the scroller, in pixels
    spc,             \* where the routine is
    step,            \* iterations of the current scroll loop made
    last_scroll_top, \* last_scroll_top of the routine
    out,             \* out of the selected-reader
    stable,          \* stable of the alarms selected-reader
    prev_len,        \* prev_len of the alarms selected-reader
    visited,         \* rows the last per-row loop handled as device rows
    visitedAt,       \* scrollTop at which that loop ran (NA: none ran)
    retries,         \* re-evaluations of all_selected_across_scroll made
    shortcut,        \* whether the reader returned the chips
    sres             \* "none", "returned" or "raised"

selVars == <<routine, nDevices, window, virtualized, checked, chipCap, stuckAt, scrollTop,
             spc, step, last_scroll_top, out, stable, prev_len, visited,
             visitedAt, retries, shortcut, sres>>

\* A modal-bearing Domain Management flow and the modals of the page.
VARIABLES
    flow,            \* "toast_helper", "remove_chassis", "move_to_domain",
                     \* "move_to_domain_old" or "none"
    fpc,             \* where the flow is
    answer1,         \* what the application answers the action with
    answer2,         \* what it answers the confirmation (Yes) with
    msgKind,         \* the text of its Message modal: "self", "parent", "other"
    pending,         \* the answer the application has not shown yet
    warnOpen,        \* the Warning modal is visible
    msgOpen,         \* the Message modal is visible
    toastOpen,       \* the success toast is visible
    rowPresent,      \* the chassis row is in the From tree
    appeared,        \* the modals and toasts that appeared during the flow
    fres,            \* "none", "returned" or "raised"
    errText          \* what the raised error carries

flowVars == <<flow, fpc, answer1, answer2, msgKind, pending, warnOpen, msgOpen,
              toastOpen, rowPresent, appeared, fres, errText>>

\* A scenario script: steps run through run_step, each a list of page-object
\* calls.
VARIABLES
    steps,           \* the steps: for each, the page-object calls it makes
    stepIdx,         \* the step being run (1-based)
    callIdx,         \* the call of that step being made (1-based)
    results,         \* what run_step returned for the steps run so far
    scen             \* "running", "finished", "aborted" or "none"

scenVars == <<steps, stepIdx, callIdx, results, scen>>

\* The Alarms tile of the Management Map and show_alarms / hide_alarms.
VARIABLES
    mroutine,        \* "show_alarms", "hide_alarms" or "none"
    icon,            \* name of the tile's icon: "eye", "eye-slash", "other"
    startIcon,       \* the icon when the routine was called
    clickWorks,      \* whether the application toggles the tile on a click
    togglePending,   \* a click the application has not acted on yet
    mpc,             \* where the routine and its caller are
    melapsed,        \* ms the routine's wait_until has been polling
    mres,            \* "none", "returned" or "raised"
    readAfter        \* get_alarms_status() right after the routine returned

mapVars == <<mroutine, icon, startIcon, clickWorks, togglePending, mpc, melapsed,
             mres, readAfter>>

\* The left navigation panel and its click_* methods.
VARIABLES
    navItem,         \* the panel item the method clicks, or "none"
    clickOk,         \* whether the item's click() finds the item to click
    activates,       \* whether the application marks the item active
    navActive,       \* the item carries its 'active' class
    npc,             \* where the click_* method is
    npolls,          \* times expect() has looked at the item's class
    nres,            \* "none", "True", "False" or "raised"
    nexc             \* the class of the exception in flight or raised

navVars == <<navItem, clickOk, activates, navActive, npc, npolls, nres, nexc>>

\* The fuzzy name regex of the page objects: nav_text_regex.
VARIABLES
    rxPage,          \* the page object whose nav_text_regex is called, or "none"
    element_name,    \* the name the regex is built from
    esc,             \* the pattern text nav_text_regex compiles
    rendering,       \* how the application writes the name in the element
    uiText,          \* the text of the element the regex is searched in
    rxpc,            \* where the caller is
    rxMatch          \* whether the regex was found in the text

rxVars == <<rxPage, element_name, esc, rendering, uiText, rxpc, rxMatch>>

\* The Change Chassis ID flow: change_CHASSIS_ID.
VARIABLES
    to_mode,         \* "new", "existing", another word, or "none"
    failAt,          \* for each attempt, the step of the flow that fails, or "none"
    attempt,         \* the loop variable of `for attempt in range(1, 4)`
    chStep,          \* the step of the flow the attempt is at (1-based)
    chModal,         \* the Change Chassis ID modal is open
    failed,          \* attempts that have failed
    chpc,            \* where change_CHASSIS_ID is
    chres            \* "none", "returned" or "raised"

chVars == <<to_mode, failAt, attempt, chStep, chModal, failed, chpc, chres>>

\* The countdown of Utils.utils: countdown_sleep.  Times with a fraction are in tenths of a second.
VARIABLES
    total_seconds,   \* the argument, in seconds
    update_every,    \* the argument, in tenths of a second
    remaining,       \* remaining at the head of the loop, in seconds
    cdBefore,        \* remaining at the head of the iteration before, or NA
    slept,           \* tenths of a second the last iteration slept, or NA
    cdpc             \* where countdown_sleep is

cdVars == <<total_seconds, update_every, remaining, cdBefore, slept, cdpc>>

\* The toggles of the page objects, called twice in a row.
VARIABLES
    tgOp,            \* the toggle operation called, or "none"
    tgLabel,         \* the severity tile set_severity_filter works on, or "none"
    tgOn,            \* the toggle is on: alarms shown, filter enabled, box checked
    tgPending,       \* clicks on the toggle the application has not acted on yet
    tgCall,          \* which of the two calls is running (1 or 2)
    tgStart,         \* tgOn as the running call read it first
    tgClicks,        \* clicks on the toggle the running call has made
    tgPolls,         \* polls the running call has made while waiting
    tgOnce,          \* what the toggle settles at after the first call alone
    tgpc,            \* where the running call is
    tgres            \* "none", "returned" or "raised"

tgVars == <<tgOp, tgLabel, tgOn, tgPending, tgCall, tgStart, tgClicks, tgPolls, tgOnce, tgpc, tgres>>

\* The parts added to the model after the first six.
moreVars == <<navVars, rxVars, chVars, cdVars, tgVars>>

coreVars == <<pollerVars, readerVars, selVars, flowVars, scenVars, mapVars>>

vars == <<pollerVars, readerVars, selVars, flowVars, scenVars, mapVars, moreVars>>

\* What each part of the model leaves alone.
pollerFrame == <<readerVars, selVars, flowVars, scenVars, mapVars, moreVars>>
readerFrame == <<pollerVars, selVars, flowVars, scenVars, mapVars, moreVars>>
selFrame == <<pollerVars, readerVars, flowVars, scenVars, mapVars, moreVars>>
flowFrame == <<pollerVars, readerVars, selVars, scenVars, mapVars, moreVars>>
scenFrame == <<pollerVars, readerVars, selVars, flowVars, mapVars, moreVars>>
mapFrame == <<pollerVars, readerVars, selVars, flowVars, scenVars, moreVars>>
\* No modal-bearing flow is running.
FlowIdle ==
    /\ flow = "none" /\ fpc = "idle" /\ answer1 = "none" /\ answer2 = "none"
    /\ msgKind = "other" /\ pending = "none" /\ warnOpen = FALSE /\ msgOpen = FALSE
    /\ toastOpen = FALSE /\ rowPresent = FALSE /\ appeared = {} /\ fres = "none"
    /\ errText = "none"

\* No scenario is running.
ScenIdle ==
    /\ steps = <<>> /\ stepIdx = 0 /\ callIdx = 0 /\ results = <<>> /\ scen = "none"

\* Neither show_alarms nor hide_alarms is running.
MapIdle ==
    /\ mroutine = "none" /\ icon = "other" /\ startIcon = "other"
    /\ clickWorks = FALSE /\ togglePending = FALSE /\ mpc = "idle" /\ melapsed = 0
    /\ mres = "none" /\ readAfter = "none"

\* No click_* method of the left panel is running.
NavIdle ==
    /\ navItem = "none" /\ clickOk = FALSE /\ activates = FALSE
    /\ navActive = FALSE /\ npc = "idle" /\ npolls = 0 /\ nres = "none"
    /\ nexc = "none"

\* No name regex is being built.
RxIdle ==
    /\ rxPage = "none"
    /\ element_name = <<>>
    /\ esc = <<>>
    /\ rendering = "none"
    /\ uiText = <<>>
    /\ rxpc = "idle"
    /\ rxMatch = FALSE

\* No chassis ID is being changed.
ChIdle ==
    /\ to_mode = "none"
    /\ failAt = <<>>
    /\ attempt = 0
    /\ chStep = 0
    /\ chModal = FALSE
    /\ failed = 0
    /\ chpc = "idle"
    /\ chres = "none"

\* No countdown is running.
CdIdle ==
    /\ total_seconds = 0
    /\ update_every = 0
    /\ remaining = 0
    /\ cdBefore = NA
    /\ slept = NA
    /\ cdpc = "idle"

\* No toggle operation is running.
TgIdle ==
    /\ tgOp = "none"
    /\ tgLabel = "none"
    /\ tgOn = FALSE
    /\ tgPending = 0
    /\ tgCall = 0
    /\ tgStart = FALSE
    /\ tgClicks = 0
    /\ tgPolls = 0
    /\ tgOnce = FALSE
    /\ tgpc = "idle"
    /\ tgres = "none"

\* The later parts of the model stay as constructed.
MoreIdle == NavIdle /\ RxIdle /\ ChIdle /\ CdIdle /\ TgIdle

\* The subsystems a specification does not follow stay as constructed.
OthersIdle == FlowIdle /\ ScenIdle /\ MapIdle /\ MoreIdle

\* No routine is working on the Devices dropdown.
SelIdle ==
    /\ routine = "none" /\ nDevices = 0 /\ window = 0 /\ virtualized = FALSE
    /\ checked = {} /\ chipCap = 0 /\ stuckAt = NA
    /\ scrollTop = 0 /\ spc = "idle" /\ step = 0
    /\ last_scroll_top = 0 /\ out = <<>> /\ stable = 0 /\ prev_len = 0
    /\ visited = {} /\ visitedAt = 0 /\ retries = 0 /\ shortcut = FALSE
    /\ sres = "none"

\* No reader is running.
ReaderIdle ==
    /\ reader = "none" /\ pages = 0 /\ rowsPerPage = 0 /\ twin = FALSE /\ hasPager = FALSE
    /\ max_pages = 0 /\ shown = 0 /\ target = 0 /\ rpc = "idle" /\ iter = 0
    /\ total_pages = 0 /\ all_rows = <<>> /\ seen = {} /\ before = 0
    /\ rres = "none" /\ rerr = "none"

\* ------------------------------------------------------ the predicate
\* "true"/"false": condition() returns; "raise": it raises an exception the
\* poller's except clause matches; "fatal": it raises one the clause does not
\* match (outside allow_exceptions, or not an Exception for the simple poller).
Outcomes == {"true", "false", "raise", "fatal"}
Tails == {"true", "false", "raise"}

RECURSIVE SeqsUpTo(_, _)
SeqsUpTo(S, n) ==
    IF n = 0 THEN {<<>>}
    ELSE LET shorter == SeqsUpTo(S, n - 1)
         IN shorter \cup {Append(q, x) : q \in {r \in shorter : Len(r) = n - 1}, x \in S}

Scripts == SeqsUpTo(Outcomes, MaxScript)

Outcome(n) == IF n <= Len(script) THEN script[n] ELSE tail

NoError == [kind |-> "none", elapsed |-> NA, attempts |-> NA, budget |-> NA,
            last_error |-> 0, extra |-> "none"]

\* ------------------------------------------------- wait_until, pieces
\* Argument validation: only the advanced poller has any.
ArgsRejected(v, T, I, s) ==
    /\ v = "advanced"
    /\ (T <= 0 \/ I <= 0 \/ s <= 0)

\* (mutant) the deadline test lets a poll begin at the deadline itself.
DeadlineReached_Late(t, T) == t > T

\* The loop test: `while time.time() < end_time` / `if now >= deadline: break`.
DeadlineReached(t, T) == t >= T

\* (mutant) last_exc is kept when a later evaluation returns.
NextLastExc_Sticky(o, n, old) ==
    IF o = "raise" THEN n ELSE old

\* last_exc after one evaluation: set by the except clause, cleared by every
\* evaluation that returns (true or false).
NextLastExc(o, n, old) ==
    IF o = "raise" THEN n ELSE 0

\* (mutant) the except clause re-raises what it caught.
Propagates_All(o) == o \in {"raise", "fatal"}

\* Whether the except clause lets the predicate's exception through to the caller.
Propagates(o) == o = "fatal"

\* (mutant) attempts is counted after condition() returned, so a raising
\* evaluation is not counted.
NextAttempts_SkipsRaises(v, o, a) ==
    IF v = "advanced" /\ o # "raise" THEN a + 1 ELSE a

\* attempts after the loop test passed (advanced): counted before the evaluation.
NextAttempts(v, o, a) ==
    IF v = "advanced" THEN a + 1 ELSE a

\* (mutant) consecutive is not reset by a false result or an exception.
NextConsecutive_Total(o, c) ==
    IF o = "true" THEN c + 1 ELSE c

\* consecutive after one evaluation (advanced).
NextConsecutive(o, c) ==
    IF o = "true" THEN c + 1 ELSE 0

\* Whether the evaluation makes wait_until return.
Succeeds(v, o, c, s) ==
    IF v = "simple" THEN o = "true"
    ELSE o = "true" /\ c >= s

\* Upper end of random.uniform(0.0, min(0.05, base_sleep_s * 0.25)).
JitterMax(I) == Min(JitterCap, I \div JitterDivisor)

\* (mutant) the simple poller sleeps the interval twice per iteration.
SleepTime_Doubled(v, I, j, t, T) ==
    IF v = "simple" THEN I + I
    ELSE Min(Max(0, T - t), I + j)

\* (mutant) the advanced poller gives up when a full sleep no longer fits
\* before the deadline, instead of sleeping the remainder.
SleepTime_NoPartial(v, I, j, t, T) ==
    IF v = "simple" THEN I
    ELSE IF Max(0, T - t) < I + j THEN 0 ELSE I + j

\* How long the poller sleeps after an unsuccessful evaluation at clock t.
SleepTime(v, I, j, t, T) ==
    IF v = "simple" THEN I
    ELSE Min(Max(0, T - t), I + j)

\* (mutant) the advanced poller raises the simple pollers' message.
TimeoutError_Plain(v, T, t, n, exc, extra) ==
    [kind |-> "AssertionError", elapsed |-> NA, attempts |-> NA, budget |-> T,
     last_error |-> exc, extra |-> "none"]

\* The AssertionError raised on timeout, as the fields its message carries.
TimeoutError(v, T, t, n, exc, extra) ==
    IF v = "simple"
    THEN [kind |-> "AssertionError", elapsed |-> NA, attempts |-> NA, budget |-> T,
          last_error |-> exc, extra |-> "none"]
    ELSE [kind |-> "AssertionError", elapsed |-> t, attempts |-> n, budget |-> NA,
          last_error |-> exc, extra |-> extra]

\* The "Extra debug" suffix for each behaviour of the on_timeout callback.
ExtraOf(cb) ==
    CASE cb = "absent" -> "none"
      [] cb = "null" -> "none"
      [] cb = "value" -> "debug"
      [] cb = "raises" -> "debug_failed"

\* (mutant) the timeout is reported by returning False.
OnDeadline_ReturnsFalse(v, T, t, n, exc, extra) ==
    [result |-> "returned", retval |-> "False", error |-> NoError]

\* What happens at the end of the loop.
OnDeadline(v, T, t, n, exc, extra) ==
    [result |-> "raised", retval |-> "nothing", error |-> TimeoutError(v, T, t, n, exc, extra)]

\* --------------------------------------------------------------- Init
\* The simple pollers take any timeout (0 included: no validation) and a
\* positive interval; the advanced poller is also called with arguments it
\* rejects. One call runs the advanced poller for LongTimeout at the default
\* interval.
InitPoller ==
    /\ \/ /\ variant \in {"simple", "advanced"}
          /\ timeout_ms \in 0..MaxTimeout
          /\ interval_ms \in (IF variant = "simple" THEN 1 ELSE 0)..MaxInterval
          /\ stable_successes \in (IF variant = "simple" THEN {1} ELSE 0..MaxStable)
          /\ script \in Scripts
          /\ tail \in Tails
       \/ /\ variant = "advanced"
          /\ timeout_ms = LongTimeout
          /\ interval_ms = DefaultInterval
          /\ stable_successes = 1
          /\ script = <<>>
          /\ tail \in Tails
    /\ pc = "entry"
    /\ now = 0
    /\ attempts = 0
    /\ calls = 0
    /\ last_exc = 0
    /\ consecutive = 0
    /\ result = "none"
    /\ retval = "nothing"
    /\ error = NoError
    /\ trueRun = 0
    /\ lastRaise = 0
    /\ lastOutcome = "none"
    /\ slow = FALSE
    /\ jittered = FALSE
    /\ pollStart = NA
    /\ lastEval = 0
    /\ ReaderIdle
    /\ SelIdle
    /\ OthersIdle

\* ------------------------------------------------------------ actions
argVars == <<variant, timeout_ms, interval_ms, stable_successes, script, tail>>
obsVars == <<trueRun, lastRaise, lastOutcome, slow, pollStart, lastEval>>

\* Entry: validate the arguments, take the start time, compute the deadline.
Enter ==
    /\ UNCHANGED pollerFrame
    /\ pc = "entry"
    /\ IF ArgsRejected(variant, timeout_ms, interval_ms, stable_successes)
       THEN /\ pc' = "done"
            /\ result' = "raised"
            /\ error' = [NoError EXCEPT !.kind = "ValueError"]
       ELSE /\ pc' = "test"
            /\ UNCHANGED <<result, error>>
    /\ UNCHANGED <<argVars, obsVars, now, attempts, calls, last_exc, consecutive,
                   retval, jittered>>

\* Top of the loop: leave it once the deadline is reached.
LoopTest ==
    /\ UNCHANGED pollerFrame
    /\ pc = "test"
    /\ pc' = IF DeadlineReached(now, timeout_ms) THEN "timeout" ELSE "eval"
    /\ UNCHANGED <<argVars, obsVars, now, attempts, calls, last_exc, consecutive,
                   result, retval, error, jittered>>

\* One evaluation of condition() and the bookkeeping around it.
Evaluate ==
    /\ UNCHANGED pollerFrame
    /\ pc = "eval"
    /\ \E d \in 0..MaxEval :
        LET n == calls + 1
            o == Outcome(n)
            c == NextConsecutive(o, consecutive)
        IN /\ calls' = n
           /\ attempts' = NextAttempts(variant, o, attempts)
           /\ now' = now + d
           /\ pollStart' = now
           /\ lastEval' = d
           /\ slow' = (slow \/ d > 0)
           /\ lastOutcome' = o
           /\ trueRun' = IF o = "true" THEN trueRun + 1 ELSE 0
           /\ lastRaise' = IF o \in {"raise", "fatal"} THEN n ELSE lastRaise
           /\ IF Propagates(o)
              THEN \* not matched by the except clause: propagates to the caller
                   /\ pc' = "done"
                   /\ result' = "raised"
                   /\ error' = [NoError EXCEPT !.kind = "propagated", !.last_error = n]
                   /\ UNCHANGED <<last_exc, consecutive, retval>>
              ELSE /\ last_exc' = NextLastExc(o, n, last_exc)
                   /\ consecutive' = IF variant = "advanced" THEN c ELSE consecutive
                   /\ IF Succeeds(variant, o, c, stable_successes)
                      THEN /\ pc' = "done"
                           /\ result' = "returned"
                           /\ retval' = "None"
                      ELSE /\ pc' = "sleep"
                           /\ UNCHANGED <<result, retval>>
                   /\ UNCHANGED error
    /\ UNCHANGED <<argVars, jittered>>

\* The sleep between polls; the advanced poller adds jitter and never sleeps
\* past the deadline, and leaves the loop when no time remains.
Sleep ==
    /\ UNCHANGED pollerFrame
    /\ pc = "sleep"
    /\ \E j \in 0..(IF variant = "advanced" THEN JitterMax(interval_ms) ELSE 0) :
        LET s == SleepTime(variant, interval_ms, j, now, timeout_ms)
        IN IF variant = "advanced" /\ s <= 0
           THEN /\ pc' = "timeout"
                /\ UNCHANGED <<now, jittered>>
           ELSE /\ pc' = "test"
                /\ now' = now + s
                /\ jittered' = (jittered \/ s > interval_ms)
    /\ UNCHANGED <<argVars, obsVars, attempts, calls, last_exc, consecutive,
                   result, retval, error>>

\* After the loop: the optional on_timeout callback, then the AssertionError.
RaiseTimeout ==
    /\ UNCHANGED pollerFrame
    /\ pc = "timeout"
    /\ \E cb \in (IF variant = "advanced" THEN {"absent", "null", "value", "raises"}
                  ELSE {"absent"}) :
        LET end == OnDeadline(variant, timeout_ms, now, attempts, last_exc, ExtraOf(cb))
        IN /\ result' = end.result
           /\ retval' = end.retval
           /\ error' = end.error
    /\ pc' = "done"
    /\ UNCHANGED <<argVars, obsVars, now, attempts, calls, last_exc, consecutive,
                   jittered>>

NextPoller ==
    \/ Enter
    \/ LoopTest
    \/ Evaluate
    \/ Sleep
    \/ RaiseTimeout

SpecPoller == InitPoller /\ [][NextPoller]_vars

\* ===================================================================
\* Paginated table readers
\* ===================================================================

\* No poller call is being followed.
PollerIdle ==
    /\ variant = "none" /\ timeout_ms = 0 /\ interval_ms = 0 /\ stable_successes = 0
    /\ script = <<>> /\ tail = "false" /\ pc = "idle" /\ now = 0 /\ attempts = 0
    /\ calls = 0 /\ last_exc = 0 /\ consecutive = 0 /\ result = "none"
    /\ retval = "nothing" /\ error = NoError /\ trueRun = 0 /\ lastRaise = 0
    /\ lastOutcome = "none" /\ slow = FALSE /\ jittered = FALSE /\ pollStart = NA
    /\ lastEval = 0

\* ---------------------------------------------------------- the table
\* Row n of the table, as its column values. Rows are pairwise distinct; with
\* tw, row 2 repeats row 1's message, detection timestamp, source and managed
\* device and differs from it in severity only.
Row(n, tw) ==
    IF tw /\ n = 2
    THEN [message |-> 1, detection_timestamp |-> 1, source |-> 1, managed_device |-> 1,
          severity |-> 2]
    ELSE [message |-> n, detection_timestamp |-> n, source |-> 1, managed_device |-> 1,
          severity |-> 1]

\* The rows of page p, top to bottom.
PageRows(p) == [i \in 1..rowsPerPage |-> Row((p - 1) * rowsPerPage + i, twin)]

\* All rows of the table.
TableRows == {Row(n, twin) : n \in 1..(pages * rowsPerPage)}

\* Whether the Next control is disabled: the pager shows the last page.
NextDisabled == shown >= pages

\* ------------------------------------------------------------ readers
\* The key a reader deduplicates a row by: get_all_alarms uses four
\* identifying columns, the other two readers every (column, value) pair.
RowKey(rd, row) ==
    IF rd = "alarms"
    THEN <<row.message, row.detection_timestamp, row.source, row.managed_device>>
    ELSE row

\* add_unique: append the rows whose key has not been seen, in order.
RECURSIVE AddUnique(_, _, _)
AddUnique(rd, rows, acc) ==
    IF rows = <<>> THEN acc
    ELSE LET r == Head(rows)
             k == RowKey(rd, r)
         IN AddUnique(rd, Tail(rows),
                      IF k \in acc.seen THEN acc
                      ELSE [seen |-> acc.seen \cup {k}, rows |-> Append(acc.rows, r)])

\* The rows and keys after reading the page the table shows.
ReadShown == AddUnique(reader, PageRows(shown), [seen |-> seen, rows |-> all_rows])

\* (mutant) the loop runs once more than max_pages.
EventsLoopOver_OneMore(i, cap) == i > cap

\* get_all_events: whether the `for _ in range(max_pages)` loop has run out.
EventsLoopOver(i, cap) == i >= cap

\* get_all_alarms: total_pages, from max_pages or the pager capped at MAX_SCROLL_PAGES.
AlarmsTotalPages(cap, pager, P) ==
    IF cap # 0 THEN cap
    ELSE Min(IF pager THEN P ELSE 1, MAX_SCROLL_PAGES)

tableVars == <<reader, pages, rowsPerPage, twin, hasPager, max_pages>>

InitReader ==
    /\ PollerIdle
    /\ SelIdle
    /\ OthersIdle
    /\ \/ /\ reader \in {"events", "alarms", "services"}
          /\ pages \in 1..MaxPages
          /\ rowsPerPage \in 1..MaxRows
          /\ twin \in {tw \in BOOLEAN : tw => pages * rowsPerPage >= 2}
          /\ hasPager \in {h \in BOOLEAN : pages > 1 => h}
          /\ max_pages \in (CASE reader = "events" -> {1, 2, DefaultMaxPages}
                              [] reader = "alarms" -> {0, 1, 2}
                              [] reader = "services" -> {0})
       \/ /\ reader = "services"
          /\ pages = LongTable
          /\ rowsPerPage = 1
          /\ twin = FALSE
          /\ hasPager = TRUE
          /\ max_pages = 0
    /\ shown = 1
    /\ target = 1
    /\ rpc = "start"
    /\ iter = 0
    /\ total_pages = 0
    /\ all_rows = <<>>
    /\ seen = {}
    /\ before = 0
    /\ rres = "none"
    /\ rerr = "none"

\* The application: the page requested by the last click gets rendered, table
\* body and pager together, some time after the click.
Render ==
    /\ UNCHANGED readerFrame
    /\ rpc \notin {"idle", "done"}
    /\ shown # target
    /\ shown' = target
    /\ UNCHANGED <<tableVars, target, rpc, iter, total_pages, all_rows, seen, before,
                   rres, rerr>>

\* get_all_events up to the loop: get_pages_count needs the pager to be
\* visible; then page 1 is read.
EventsStart ==
    /\ UNCHANGED readerFrame
    /\ reader = "events" /\ rpc = "start"
    /\ IF ~hasPager
       THEN /\ rpc' = "done" /\ rres' = "raised" /\ rerr' = "no_pager"
            /\ UNCHANGED <<all_rows, seen>>
       ELSE /\ all_rows' = ReadShown.rows
            /\ seen' = ReadShown.seen
            /\ rpc' = "loop"
            /\ UNCHANGED <<rres, rerr>>
    /\ UNCHANGED <<tableVars, shown, target, iter, total_pages, before>>

\* get_all_events, one pass of the loop up to the click on Next.
EventsAdvance ==
    /\ UNCHANGED readerFrame
    /\ reader = "events" /\ rpc = "loop"
    /\ IF EventsLoopOver(iter, max_pages) \/ NextDisabled
       THEN /\ rpc' = "done" /\ rres' = "returned"
            /\ UNCHANGED <<target, before, iter>>
       ELSE /\ before' = shown
            /\ target' = shown + 1
            /\ iter' = iter + 1
            /\ rpc' = "wait"
            /\ UNCHANGED rres
    /\ UNCHANGED <<tableVars, shown, total_pages, all_rows, seen, rerr>>

\* get_all_events: wait_until saw the table body change; the new page is read.
EventsAwait ==
    /\ UNCHANGED readerFrame
    /\ reader = "events" /\ rpc = "wait"
    /\ shown # before
    /\ all_rows' = ReadShown.rows
    /\ seen' = ReadShown.seen
    /\ rpc' = "loop"
    /\ UNCHANGED <<tableVars, shown, target, iter, total_pages, before, rres, rerr>>

\* A reader's wait_until times out with the page unchanged: the error leaves
\* the reader (get_all_events re-raises it as its own AssertionError).
WaitTimesOut ==
    /\ UNCHANGED readerFrame
    /\ reader \in {"events", "services"} /\ rpc = "wait"
    /\ shown = before
    /\ rpc' = "done" /\ rres' = "raised" /\ rerr' = "page_unchanged"
    /\ UNCHANGED <<tableVars, shown, target, iter, total_pages, all_rows, seen, before>>

\* get_all_alarms up to the loop: total_pages. The table starts on page 1,
\* where Previous is disabled and the rewind loop ends at once.
AlarmsStart ==
    /\ UNCHANGED readerFrame
    /\ reader = "alarms" /\ rpc = "start"
    /\ total_pages' = AlarmsTotalPages(max_pages, hasPager, pages)
    /\ iter' = 1
    /\ rpc' = "loop"
    /\ UNCHANGED <<tableVars, shown, target, all_rows, seen, before, rres, rerr>>

\* get_all_alarms, one pass of `for page_idx in range(1, total_pages + 1)`:
\* read the rows shown, then click Next; nothing waits for the new page.
AlarmsPage ==
    /\ UNCHANGED readerFrame
    /\ reader = "alarms" /\ rpc = "loop"
    /\ all_rows' = ReadShown.rows
    /\ seen' = ReadShown.seen
    /\ IF iter < total_pages /\ hasPager
       THEN IF NextDisabled
            THEN \* Next absent or disabled: break
                 /\ rpc' = "done" /\ rres' = "returned"
                 /\ UNCHANGED <<before, target, iter>>
            ELSE /\ before' = shown
                 /\ target' = shown + 1
                 /\ iter' = iter + 1
                 /\ UNCHANGED <<rpc, rres>>
       ELSE IF iter < total_pages
            THEN \* no pager: the same rows are read again for the next page_idx
                 /\ iter' = iter + 1
                 /\ UNCHANGED <<before, target, rpc, rres>>
            ELSE \* the loop ran total_pages times
                 /\ rpc' = "done" /\ rres' = "returned"
                 /\ UNCHANGED <<before, target, iter>>
    /\ UNCHANGED <<tableVars, shown, total_pages, rerr>>

\* read_all_pages_from_table, one pass of `while True` up to the wait.
ServicesPage ==
    /\ UNCHANGED readerFrame
    /\ reader = "services" /\ rpc \in {"start", "loop"}
    /\ all_rows' = ReadShown.rows
    /\ seen' = ReadShown.seen
    /\ IF ~hasPager \/ NextDisabled
       THEN \* no pager, or click_next returned False
            /\ rpc' = "done" /\ rres' = "returned"
            /\ UNCHANGED <<before, target>>
       ELSE /\ before' = shown
            /\ target' = shown + 1
            /\ rpc' = "wait"
            /\ UNCHANGED rres
    /\ UNCHANGED <<tableVars, shown, iter, total_pages, rerr>>

\* read_all_pages_from_table: wait_until saw the pager or the first row change.
ServicesAwait ==
    /\ UNCHANGED readerFrame
    /\ reader = "services" /\ rpc = "wait"
    /\ shown # before
    /\ rpc' = "loop"
    /\ UNCHANGED <<tableVars, shown, target, iter, total_pages, all_rows, seen, before,
                   rres, rerr>>

NextReader ==
    \/ Render
    \/ EventsStart
    \/ EventsAdvance
    \/ EventsAwait
    \/ WaitTimesOut
    \/ AlarmsStart
    \/ AlarmsPage
    \/ ServicesPage
    \/ ServicesAwait

SpecReader == InitReader /\ [][NextReader]_vars

\* The reader is a sequential program: it keeps taking its next step, and a
\* wait_until it is in ends (by success or by timeout). The application owes
\* it nothing: Render carries no fairness.
ReaderStep ==
    \/ EventsStart
    \/ EventsAdvance
    \/ EventsAwait
    \/ WaitTimesOut
    \/ AlarmsStart
    \/ AlarmsPage
    \/ ServicesPage
    \/ ServicesAwait

SpecReaderFair == SpecReader /\ WF_vars(ReaderStep)

\* ===================================================================
\* The virtualized list selector: set_all_devices_filterBy_devices and
\* get_all_selected_devices_filterBy_devices on the Devices dropdown.
\* ===================================================================

\* ------------------------------------------------------- the dropdown
\* el.clientHeight and el.scrollHeight of the scroller, and the largest
\* scrollTop the browser allows.
ClientHeight == window * RowHeight
ScrollHeight == Max((nDevices + 1) * RowHeight, ClientHeight)
MaxScrollTop == ScrollHeight - ClientHeight

\* The rows `menu.locator("li.dropdown-item.multiple")` matches when the
\* scroller is at st, in document order: a virtualized list attaches the rows
\* that lie in the viewport, fully or in part (V rows when st is a multiple of
\* the row height), a plain list all its rows.
RenderedFirst(st) == IF virtualized THEN st \div RowHeight ELSE 0
RenderedLast(st) ==
    IF virtualized THEN Min((st + ClientHeight - 1) \div RowHeight, nDevices)
    ELSE nDevices
RenderedCount(st) == RenderedLast(st) - RenderedFirst(st) + 1
RenderedRows(st) == [k \in 1..RenderedCount(st) |-> RenderedFirst(st) + k - 1]
Rendered(st) == {RenderedRows(st)[k] : k \in 1..RenderedCount(st)}

\* `for i in range(1, n)`: the matched rows without the first of them.
RowsFromOne(st) == SubSeq(RenderedRows(st), 2, RenderedCount(st))

\* is_checked / is_device_checked of a row.
IsChecked(i, chk) == IF i = 0 THEN chk = 1..nDevices ELSE i \in chk

\* scroll_to_top, scroll_page_down, scroll_down (90% of the viewport).
ScrollPageDown(st) == Min(st + ClientHeight, MaxScrollTop)
ScrollDown(st) == Min(st + (ClientHeight * ScrollNum) \div ScrollDen, MaxScrollTop)

\* el.scrollTop after scroll_page_down(): the scroller moves, unless it is
\* one that no longer moves from st.
PageDownFrom(st) == IF st = stuckAt THEN st ELSE ScrollPageDown(st)

\* (mutant) the bottom of the list is not recognised.
AtBottom_Never(st) == FALSE

\* scroll_top + client_h >= scroll_h - 2
AtBottom(st) == st + ClientHeight >= ScrollHeight - BottomTolerance

SeqRange(q) == {q[k] : k \in 1..Len(q)}

\* ------------------------------------------------------------ set_all
\* click_all_visible_unchecked: the rows it clicks.
ClickTargets(st, chk) == {i \in SeqRange(RowsFromOne(st)) : ~IsChecked(i, chk)}

\* any_unchecked_visible
AnyUncheckedVisible(st, chk) == ClickTargets(st, chk) # {}

\* ------------------------------------------------------------ readers
\* extract_device of the alarms reader: "" (here NA) for the row "All".
ExtractDevice(i) == IF i = 0 THEN NA ELSE i

\* The per-row loop of a reader over rows: every checked row whose name is
\* not empty and not yet seen is appended to acc.
RECURSIVE CollectRows(_, _, _, _)
CollectRows(rd, rows, chk, acc) ==
    IF rows = <<>> THEN acc
    ELSE LET i == Head(rows)
             name == IF rd = "read_alarms" THEN ExtractDevice(i) ELSE i
             take == IsChecked(i, chk) /\ name # NA /\ name \notin SeqRange(acc)
         IN  CollectRows(rd, Tail(rows), chk, IF take THEN Append(acc, name) ELSE acc)

\* collect_visible_selected of the alarms reader (`for i in range(n)`).
CollectVisibleSelected(st, chk, acc) == CollectRows("read_alarms", RenderedRows(st), chk, acc)

\* (mutant) the scan stops as soon as it is at the bottom.
ScanIter_StopsAtBottom(s, chk) ==
    LET o == CollectVisibleSelected(s.st, chk, s.out)
        same == Len(o) = s.prev_len /\ Len(o) = Len(s.out)
        stb == IF same THEN s.stable + 1 ELSE 0
        stop == AtBottom(s.st)
    IN  [st |-> IF stop THEN s.st ELSE ScrollDown(s.st),
         out |-> o,
         stable |-> stb,
         prev_len |-> IF same THEN s.prev_len ELSE Len(o),
         stop |-> stop]

\* One pass of `for _ in range(MAX_SCROLL_STEPS)` of the alarms reader.
ScanIter(s, chk) ==
    LET o == CollectVisibleSelected(s.st, chk, s.out)
        same == Len(o) = s.prev_len /\ Len(o) = Len(s.out)
        stb == IF same THEN s.stable + 1 ELSE 0
        stop == AtBottom(s.st) /\ stb >= STABLE_STEPS_TO_STOP
    IN  [st |-> IF stop THEN s.st ELSE ScrollDown(s.st),
         out |-> o,
         stable |-> stb,
         prev_len |-> IF same THEN s.prev_len ELSE Len(o),
         stop |-> stop]

\* The full-scroll scan of the alarms reader from its k-th pass on, with the
\* last collection after the loop.
RECURSIVE ScanLoop(_, _, _)
ScanLoop(k, s, chk) ==
    IF k >= MAX_SCROLL_STEPS \/ s.stop
    THEN CollectVisibleSelected(s.st, chk, s.out)
    ELSE ScanLoop(k + 1, ScanIter(s, chk), chk)

FullScan(chk) ==
    ScanLoop(0, [st |-> 0, out |-> <<>>, stable |-> 0, prev_len |-> 0, stop |-> FALSE], chk)

\* ---------------------------------------------------- selection summary
RECURSIVE Ascending(_)
Ascending(S) ==
    IF S = {} THEN <<>>
    ELSE LET m == CHOOSE x \in S : \A y \in S : x <= y
         IN  <<m>> \o Ascending(S \ {m})

\* The texts of `div.selected-view.multiple span`: a chip for each selected
\* device up to cap chips, then a chip "+k" (here 0 - k) for the k others.
ChipTexts(chk, cap) ==
    LET names == Ascending(chk)
        k == Len(names) - cap
    IN  IF k > 0 THEN SubSeq(names, 1, cap) \o <<0 - k>> ELSE names

\* (mutant) the '+N' chip is not recognised.
HasPlus_Never(chips) == FALSE

\* has_plus: some chip text matches \+\s*\d+
HasPlus(chips) == \E k \in 1..Len(chips) : chips[k] < 0

\* The list built from the chips: each name once.
RECURSIVE ChipsOut(_, _)
ChipsOut(chips, acc) ==
    IF chips = <<>> THEN acc
    ELSE ChipsOut(Tail(chips),
                  IF Head(chips) \notin SeqRange(acc) THEN Append(acc, Head(chips)) ELSE acc)

\* --------------------------------------------------------------- Init
InitSel ==
    /\ PollerIdle
    /\ ReaderIdle
    /\ OthersIdle
    /\ routine \in {"set_all", "read_alarms", "read_services"}
    /\ \/ /\ nDevices \in 1..MaxDevices
          /\ window \in 1..MaxWindow
          /\ virtualized \in BOOLEAN
          /\ checked \in SUBSET (1..nDevices)
       \/ /\ nDevices = LongList
          /\ window = 1
          /\ virtualized = TRUE
          /\ checked = (IF routine = "set_all" THEN 1..nDevices ELSE {})
    /\ stuckAt \in (IF routine = "set_all" THEN {NA, ClientHeight} ELSE {NA})
    /\ chipCap \in (IF routine = "read_alarms" THEN 1..MaxChips ELSE {1})
    /\ scrollTop \in {0, MaxScrollTop}
    /\ spc = "start"
    /\ step = 0
    /\ last_scroll_top = NA
    /\ out = <<>>
    /\ stable = 0
    /\ prev_len = 0
    /\ visited = {}
    /\ visitedAt = NA
    /\ retries = 0
    /\ shortcut = FALSE
    /\ sres = "none"

listVars == <<routine, nDevices, window, virtualized, chipCap, stuckAt>>

\* ------------------------------------------------------------ actions
\* all_selected_across_scroll begins: scroll_to_top(), last_scroll_top = -1.
SetAllStart ==
    /\ UNCHANGED selFrame
    /\ routine = "set_all" /\ spc = "start"
    /\ scrollTop' = 0
    /\ last_scroll_top' = NA
    /\ step' = 0
    /\ spc' = "pass1"
    /\ UNCHANGED <<listVars, checked, out, stable, prev_len, visited, visitedAt,
                   retries, shortcut, sres>>

\* Pass 1, one iteration: click the unchecked rows, then stop at the bottom
\* or where the scroll is stuck, else scroll a page down. A forced click
\* toggles the row or is lost. Leaving the loop begins pass 2.
Pass1 ==
    /\ UNCHANGED selFrame
    /\ routine = "set_all" /\ spc = "pass1"
    /\ IF step >= MAX_SCROLL_PAGES
       THEN /\ scrollTop' = 0 /\ last_scroll_top' = NA /\ step' = 0 /\ spc' = "pass2"
            /\ UNCHANGED <<checked, visited, visitedAt>>
       ELSE /\ \E took \in SUBSET ClickTargets(scrollTop, checked) :
                  checked' = checked \cup took
            /\ visited' = SeqRange(RowsFromOne(scrollTop))
            /\ visitedAt' = scrollTop
            /\ IF AtBottom(scrollTop) \/ scrollTop = last_scroll_top
               THEN /\ scrollTop' = 0 /\ last_scroll_top' = NA /\ step' = 0
                    /\ spc' = "pass2"
               ELSE /\ last_scroll_top' = scrollTop
                    /\ scrollTop' = PageDownFrom(scrollTop)
                    /\ step' = step + 1
                    /\ UNCHANGED spc
    /\ UNCHANGED <<listVars, out, stable, prev_len, retries, shortcut, sres>>

\* Pass 2, one iteration: False when an unchecked row is met, True at the
\* bottom, where the scroll is stuck, and when the loop runs out.
Pass2 ==
    /\ UNCHANGED selFrame
    /\ routine = "set_all" /\ spc = "pass2"
    /\ IF step >= MAX_SCROLL_PAGES
       THEN /\ spc' = "done" /\ sres' = "returned"
            /\ UNCHANGED <<scrollTop, last_scroll_top, step, visited, visitedAt>>
       ELSE /\ visited' = SeqRange(RowsFromOne(scrollTop))
            /\ visitedAt' = scrollTop
            /\ IF AnyUncheckedVisible(scrollTop, checked)
               THEN /\ spc' = "retry"
                    /\ UNCHANGED <<scrollTop, last_scroll_top, step, sres>>
               ELSE IF AtBottom(scrollTop) \/ scrollTop = last_scroll_top
               THEN /\ spc' = "done" /\ sres' = "returned"
                    /\ UNCHANGED <<scrollTop, last_scroll_top, step>>
               ELSE /\ last_scroll_top' = scrollTop
                    /\ scrollTop' = PageDownFrom(scrollTop)
                    /\ step' = step + 1
                    /\ UNCHANGED <<spc, sres>>
    /\ UNCHANGED <<listVars, checked, out, stable, prev_len, retries, shortcut>>

\* wait_until evaluates all_selected_across_scroll again after a False.
SetAllRetry ==
    /\ UNCHANGED selFrame
    /\ routine = "set_all" /\ spc = "retry"
    /\ retries < MaxRetries
    /\ retries' = retries + 1
    /\ scrollTop' = 0
    /\ last_scroll_top' = NA
    /\ step' = 0
    /\ spc' = "pass1"
    /\ UNCHANGED <<listVars, checked, out, stable, prev_len, visited, visitedAt,
                   shortcut, sres>>

\* wait_until reaches its deadline after a False: the routine raises.
SetAllTimeout ==
    /\ UNCHANGED selFrame
    /\ routine = "set_all" /\ spc = "retry"
    /\ spc' = "done"
    /\ sres' = "raised"
    /\ UNCHANGED <<listVars, checked, scrollTop, step, last_scroll_top, out, stable,
                   prev_len, visited, visitedAt, retries, shortcut>>

\* The alarms reader begins: the chips are returned when there are chips
\* and none is '+N'; otherwise the scan starts from the top.
ReadAlarmsStart ==
    /\ UNCHANGED selFrame
    /\ routine = "read_alarms" /\ spc = "start"
    /\ LET chips == ChipTexts(checked, chipCap)
       IN  IF Len(chips) > 0 /\ ~HasPlus(chips)
           THEN /\ out' = ChipsOut(chips, <<>>)
                /\ shortcut' = TRUE
                /\ spc' = "done" /\ sres' = "returned"
                /\ UNCHANGED scrollTop
           ELSE /\ scrollTop' = 0
                /\ spc' = "scan"
                /\ UNCHANGED <<out, shortcut, sres>>
    /\ UNCHANGED <<listVars, checked, step, last_scroll_top, stable, prev_len,
                   visited, visitedAt, retries>>

\* The alarms reader's scan, one iteration; after the loop, one last
\* collection.
ScanStep ==
    /\ UNCHANGED selFrame
    /\ routine = "read_alarms" /\ spc = "scan"
    /\ IF step >= MAX_SCROLL_STEPS
       THEN /\ out' = CollectVisibleSelected(scrollTop, checked, out)
            /\ spc' = "done" /\ sres' = "returned"
            /\ UNCHANGED <<scrollTop, step, stable, prev_len>>
       ELSE LET r == ScanIter([st |-> scrollTop, out |-> out, stable |-> stable,
                               prev_len |-> prev_len, stop |-> FALSE], checked)
            IN  /\ stable' = r.stable
                /\ prev_len' = r.prev_len
                /\ scrollTop' = r.st
                /\ IF r.stop
                   THEN /\ out' = CollectVisibleSelected(r.st, checked, r.out)
                        /\ spc' = "done" /\ sres' = "returned"
                        /\ UNCHANGED step
                   ELSE /\ out' = r.out
                        /\ step' = step + 1
                        /\ UNCHANGED <<spc, sres>>
    /\ visited' = {i \in Rendered(scrollTop) : ExtractDevice(i) # NA}
    /\ visitedAt' = scrollTop
    /\ UNCHANGED <<listVars, checked, last_scroll_top, retries, shortcut>>

\* The services reader begins: scroll_to_top(), last_scroll_top = -1.
ReadServicesStart ==
    /\ UNCHANGED selFrame
    /\ routine = "read_services" /\ spc = "start"
    /\ scrollTop' = 0
    /\ last_scroll_top' = NA
    /\ spc' = "scan"
    /\ UNCHANGED <<listVars, checked, step, out, stable, prev_len, visited,
                   visitedAt, retries, shortcut, sres>>

\* The services reader, one iteration of `for _ in range(MAX_SCROLL_PAGES)`.
ServicesScanStep ==
    /\ UNCHANGED selFrame
    /\ routine = "read_services" /\ spc = "scan"
    /\ IF step >= MAX_SCROLL_PAGES
       THEN /\ spc' = "done" /\ sres' = "returned"
            /\ UNCHANGED <<out, scrollTop, last_scroll_top, step, visited, visitedAt>>
       ELSE /\ out' = CollectRows("read_services", RowsFromOne(scrollTop), checked, out)
            /\ visited' = SeqRange(RowsFromOne(scrollTop))
            /\ visitedAt' = scrollTop
            /\ IF AtBottom(scrollTop) \/ scrollTop = last_scroll_top
               THEN /\ spc' = "done" /\ sres' = "returned"
                    /\ UNCHANGED <<scrollTop, last_scroll_top, step>>
               ELSE /\ last_scroll_top' = scrollTop
                    /\ scrollTop' = PageDownFrom(scrollTop)
                    /\ step' = step + 1
                    /\ UNCHANGED <<spc, sres>>
    /\ UNCHANGED <<listVars, checked, stable, prev_len, retries, shortcut>>

NextSel ==
    \/ SetAllStart
    \/ Pass1
    \/ Pass2
    \/ SetAllRetry
    \/ SetAllTimeout
    \/ ReadAlarmsStart
    \/ ScanStep
    \/ ReadServicesStart
    \/ ServicesScanStep

SpecSel == InitSel /\ [][NextSel]_vars

\* ===================================================================
\* Modal-bearing Domain Management flows: click_button_and_validate_toast,
\* remove_chassis, move_to_domain and move_to_domain_old.
\* ===================================================================

MoveFlows == {"move_to_domain", "move_to_domain_old"}

\* What the application may answer the action of a flow with, and what it
\* may answer the confirmation with.
Answers1(fl) ==
    IF fl = "toast_helper" THEN {"toast", "warning", "message", "none"}
    ELSE {"warning", "message", "none"}
Answers2(fl) ==
    CASE fl = "remove_chassis" -> {"removed", "kept"}
      [] fl \in MoveFlows -> {"message", "none"}
      [] OTHER -> {"none"}

\* (mutant) the click on Ok leaves the Message modal open.
ClickOk_Ignored(open) == open

\* ok.click() / close.click() on the Message modal: the modal closes.
ClickOk(open) == FALSE

\* yes.click() on the Warning modal: the modal closes.
ClickYes(open) == FALSE

\* page.reload(): the page is rebuilt without modals.
Reloaded(open) == FALSE

\* What the error raised for a Message modal carries: the text read from the
\* modal, or for move_to_domain_old's two known texts a fixed sentence.
MessageError(fl, kind) ==
    IF fl = "move_to_domain_old" /\ kind \in {"self", "parent"}
    THEN "paraphrase"
    ELSE "verbatim"

InitFlow ==
    /\ PollerIdle
    /\ MoreIdle
    /\ ReaderIdle
    /\ SelIdle
    /\ ScenIdle
    /\ MapIdle
    /\ flow \in {"toast_helper", "remove_chassis", "move_to_domain", "move_to_domain_old"}
    /\ answer1 \in Answers1(flow)
    /\ answer2 \in Answers2(flow)
    /\ msgKind \in (IF flow \in MoveFlows /\ "message" \in {answer1, answer2}
                    THEN {"self", "parent", "other"} ELSE {"other"})
    /\ fpc = "start"
    /\ pending = "none"
    /\ warnOpen = FALSE
    /\ msgOpen = FALSE
    /\ toastOpen = FALSE
    /\ rowPresent = (flow = "remove_chassis")
    /\ appeared = {}
    /\ fres = "none"
    /\ errText = "none"

flowInputs == <<flow, answer1, answer2, msgKind>>

\* The application shows its answer: a modal or the toast becomes visible.
AppAnswers ==
    /\ UNCHANGED flowFrame
    /\ flow # "none" /\ fpc \notin {"start", "done"}
    /\ pending \in {"warning", "message", "toast"}
    /\ warnOpen' = (warnOpen \/ pending = "warning")
    /\ msgOpen' = (msgOpen \/ pending = "message")
    /\ toastOpen' = (toastOpen \/ pending = "toast")
    /\ appeared' = appeared \cup {pending}
    /\ pending' = "none"
    /\ UNCHANGED <<flowInputs, fpc, rowPresent, fres, errText>>

\* The application removes the toast.
ToastFades ==
    /\ UNCHANGED flowFrame
    /\ flow # "none" /\ fpc # "done" /\ toastOpen
    /\ toastOpen' = FALSE
    /\ UNCHANGED <<flowInputs, fpc, pending, warnOpen, msgOpen, rowPresent, appeared,
                   fres, errText>>

\* The caller has clicked its button and calls click_button_and_validate_toast.
HelperBegins ==
    /\ UNCHANGED flowFrame
    /\ flow = "toast_helper" /\ fpc = "start"
    /\ pending' = answer1
    /\ fpc' = "wait"
    /\ UNCHANGED <<flowInputs, warnOpen, msgOpen, toastOpen, rowPresent, appeared,
                   fres, errText>>

\* click_button_and_validate_toast once the toast or a modal is visible: a
\* Message modal is closed with Ok and reported, a Warning modal is reported
\* and left to the caller, a toast is waited out.
HelperWait ==
    /\ UNCHANGED flowFrame
    /\ flow = "toast_helper" /\ fpc = "wait"
    /\ toastOpen \/ msgOpen \/ warnOpen
    /\ IF msgOpen
       THEN /\ msgOpen' = ClickOk(msgOpen)
            /\ fpc' = "done" /\ fres' = "raised" /\ errText' = MessageError(flow, msgKind)
       ELSE IF warnOpen
       THEN /\ fpc' = "done" /\ fres' = "raised" /\ errText' = "blocked"
            /\ UNCHANGED msgOpen
       ELSE /\ fpc' = "toast_wait"
            /\ UNCHANGED <<msgOpen, fres, errText>>
    /\ UNCHANGED <<flowInputs, pending, warnOpen, toastOpen, rowPresent, appeared>>

\* Its wait_until times out: neither toast nor modal appeared.
HelperTimeout ==
    /\ UNCHANGED flowFrame
    /\ flow = "toast_helper" /\ fpc = "wait"
    /\ ~(toastOpen \/ msgOpen \/ warnOpen)
    /\ fpc' = "done" /\ fres' = "raised" /\ errText' = "timeout"
    /\ UNCHANGED <<flowInputs, pending, warnOpen, msgOpen, toastOpen, rowPresent, appeared>>

\* expect(toast).to_be_hidden: True is returned once the toast has gone, an
\* error is raised if it stays.
HelperToastWait ==
    /\ UNCHANGED flowFrame
    /\ flow = "toast_helper" /\ fpc = "toast_wait"
    /\ fpc' = "done"
    /\ IF toastOpen
       THEN fres' = "raised" /\ errText' = "timeout"
       ELSE fres' = "returned" /\ UNCHANGED errText
    /\ UNCHANGED <<flowInputs, pending, warnOpen, msgOpen, toastOpen, rowPresent, appeared>>

\* remove_chassis clicks the Remove button of the chassis row.
RemoveClick ==
    /\ UNCHANGED flowFrame
    /\ flow = "remove_chassis" /\ fpc = "start"
    /\ pending' = answer1
    /\ fpc' = "wait"
    /\ UNCHANGED <<flowInputs, warnOpen, msgOpen, toastOpen, rowPresent, appeared,
                   fres, errText>>

\* remove_chassis once a modal is visible: a Message modal is closed with Ok
\* and reported; a Warning modal is confirmed with Yes and the page reloaded.
RemoveWait ==
    /\ UNCHANGED flowFrame
    /\ flow = "remove_chassis" /\ fpc = "wait"
    /\ warnOpen \/ msgOpen
    /\ IF msgOpen
       THEN /\ msgOpen' = ClickOk(msgOpen)
            /\ fpc' = "done" /\ fres' = "raised" /\ errText' = MessageError(flow, msgKind)
            /\ UNCHANGED <<warnOpen, pending, rowPresent>>
       ELSE /\ warnOpen' = Reloaded(ClickYes(warnOpen))
            /\ msgOpen' = Reloaded(msgOpen)
            /\ pending' = "none"
            /\ rowPresent' = (answer2 = "kept")
            /\ fpc' = "verify"
            /\ UNCHANGED <<fres, errText>>
    /\ UNCHANGED <<flowInputs, toastOpen, appeared>>

\* Its first wait_until times out: no modal appeared.
RemoveWaitTimeout ==
    /\ UNCHANGED flowFrame
    /\ flow = "remove_chassis" /\ fpc = "wait"
    /\ ~(warnOpen \/ msgOpen)
    /\ fpc' = "done" /\ fres' = "raised" /\ errText' = "timeout"
    /\ UNCHANGED <<flowInputs, pending, warnOpen, msgOpen, toastOpen, rowPresent, appeared>>

\* After the confirmation: a Message modal is closed with Ok and reported;
\* else the row must have left the tree, and the page is reloaded.
RemoveVerify ==
    /\ UNCHANGED flowFrame
    /\ flow = "remove_chassis" /\ fpc = "verify"
    /\ fpc' = "done"
    /\ IF msgOpen
       THEN /\ msgOpen' = ClickOk(msgOpen)
            /\ fres' = "raised" /\ errText' = MessageError(flow, msgKind)
            /\ UNCHANGED warnOpen
       ELSE IF rowPresent
       THEN /\ fres' = "raised" /\ errText' = "timeout"
            /\ UNCHANGED <<warnOpen, msgOpen>>
       ELSE /\ warnOpen' = Reloaded(warnOpen)
            /\ msgOpen' = Reloaded(msgOpen)
            /\ fres' = "returned"
            /\ UNCHANGED errText
    /\ UNCHANGED <<flowInputs, pending, toastOpen, rowPresent, appeared>>

\* move_to_domain clicks the middle arrow.
MoveClick ==
    /\ UNCHANGED flowFrame
    /\ flow \in MoveFlows /\ fpc = "start"
    /\ pending' = answer1
    /\ fpc' = "check_warn"
    /\ UNCHANGED <<flowInputs, warnOpen, msgOpen, toastOpen, rowPresent, appeared,
                   fres, errText>>

\* It looks once for the Warning modal and clicks Yes if it is visible.
MoveCheckWarning ==
    /\ UNCHANGED flowFrame
    /\ flow \in MoveFlows /\ fpc = "check_warn"
    /\ IF warnOpen
       THEN /\ warnOpen' = ClickYes(warnOpen)
            /\ pending' = answer2
       ELSE UNCHANGED <<warnOpen, pending>>
    /\ fpc' = "check_msg"
    /\ UNCHANGED <<flowInputs, msgOpen, toastOpen, rowPresent, appeared, fres, errText>>

\* It looks once for the Message modal: if visible, the text is read, the
\* modal closed and the error raised.
MoveCheckMessage ==
    /\ UNCHANGED flowFrame
    /\ flow \in MoveFlows /\ fpc = "check_msg"
    /\ IF msgOpen
       THEN /\ msgOpen' = ClickOk(msgOpen)
            /\ fpc' = "done" /\ fres' = "raised" /\ errText' = MessageError(flow, msgKind)
       ELSE /\ fpc' = "reload"
            /\ UNCHANGED <<msgOpen, fres, errText>>
    /\ UNCHANGED <<flowInputs, pending, warnOpen, toastOpen, rowPresent, appeared>>

\* refresh_page(self.page), then the method returns.
MoveReload ==
    /\ UNCHANGED flowFrame
    /\ flow \in MoveFlows /\ fpc = "reload"
    /\ warnOpen' = Reloaded(warnOpen)
    /\ msgOpen' = Reloaded(msgOpen)
    /\ pending' = "none"
    /\ fpc' = "done" /\ fres' = "returned"
    /\ UNCHANGED <<flowInputs, toastOpen, rowPresent, appeared, errText>>

NextFlow ==
    \/ AppAnswers
    \/ ToastFades
    \/ HelperBegins
    \/ HelperWait
    \/ HelperTimeout
    \/ HelperToastWait
    \/ RemoveClick
    \/ RemoveWait
    \/ RemoveWaitTimeout
    \/ RemoveVerify
    \/ MoveClick
    \/ MoveCheckWarning
    \/ MoveCheckMessage
    \/ MoveReload

SpecFlow == InitFlow /\ [][NextFlow]_vars

\* ===================================================================
\* Scenario scripts: run_step and the page-object calls made in a step.
\* ===================================================================

\* Whether an exception class derives from Exception: SystemExit, which
\* exit(1) raises, derives from BaseException only.
IsException(exc) == exc # "SystemExit"

\* run_step: `except Exception`.
RunStepCatches(exc) == IsException(exc)

\* submit_add_domain after the click on Add: with the server error shown, the
\* modal is closed and the error page handled, then AssertionError is raised,
\* or exit(1) is called when the error page was not handled; without the error
\* the domain row must appear in the tree.
SubmitAddDomain(error_visible, handled, row_appears) ==
    IF error_visible
    THEN IF handled THEN "AssertionError" ELSE "SystemExit"
    ELSE IF row_appears THEN "ok" ELSE "AssertionError"

\* How a page-object call can end.
CallOutcomes(call) ==
    IF call = "add_domain"
    THEN {SubmitAddDomain(e, h, r) : e \in BOOLEAN, h \in BOOLEAN, r \in BOOLEAN}
    ELSE {"ok", "AssertionError"}

StepLists == UNION {[1..n -> {"add_domain", "other"}] : n \in 1..MaxCalls}

InitScen ==
    /\ PollerIdle
    /\ MoreIdle
    /\ ReaderIdle
    /\ SelIdle
    /\ FlowIdle
    /\ MapIdle
    /\ steps \in UNION {[1..n -> StepLists] : n \in 1..MaxSteps}
    /\ stepIdx = 1
    /\ callIdx = 1
    /\ results = <<>>
    /\ scen = "running"

\* run_step has returned: the script goes on to its next run_step line.
NextStep(ok) ==
    /\ results' = Append(results, ok)
    /\ stepIdx' = stepIdx + 1
    /\ callIdx' = 1
    /\ scen' = IF stepIdx = Len(steps) THEN "finished" ELSE "running"
    /\ UNCHANGED steps

\* A call of the step returns; after the last one run_step prints success.
CallReturns ==
    /\ UNCHANGED scenFrame
    /\ scen = "running"
    /\ "ok" \in CallOutcomes(steps[stepIdx][callIdx])
    /\ IF callIdx < Len(steps[stepIdx])
       THEN /\ callIdx' = callIdx + 1
            /\ UNCHANGED <<steps, stepIdx, results, scen>>
       ELSE NextStep(TRUE)

\* A call of the step raises: run_step catches and reports the failure, or
\* the exception leaves run_step and the script.
CallRaises ==
    /\ UNCHANGED scenFrame
    /\ scen = "running"
    /\ \E exc \in CallOutcomes(steps[stepIdx][callIdx]) \ {"ok"} :
          IF RunStepCatches(exc)
          THEN NextStep(FALSE)
          ELSE /\ scen' = "aborted"
               /\ UNCHANGED <<steps, stepIdx, callIdx, results>>

NextScen ==
    \/ CallReturns
    \/ CallRaises

SpecScen == InitScen /\ [][NextScen]_vars

\* ===================================================================
\* Management Map: show_alarms, hide_alarms and get_alarms_status.
\* ===================================================================

\* get_alarms_status by the icon's name; "raise" for an unknown icon.
GetAlarmsStatus(ic) ==
    CASE ic = "eye" -> "hidden"
      [] ic = "eye-slash" -> "shown"
      [] OTHER -> "raise"

\* The status in which the routine returns at once, and the one in which it
\* clicks the tile.
AlreadyStatus(r) == IF r = "show_alarms" THEN "shown" ELSE "hidden"
ClicksInStatus(r) == IF r = "show_alarms" THEN "hidden" ELSE "shown"

\* The status the routine's wait_until polls for after the click.
WaitedStatus(r) == "hidden"

\* The application toggles the tile.
Toggle(ic) ==
    CASE ic = "eye" -> "eye-slash"
      [] ic = "eye-slash" -> "eye"
      [] OTHER -> ic

InitMap ==
    /\ PollerIdle
    /\ MoreIdle
    /\ ReaderIdle
    /\ SelIdle
    /\ FlowIdle
    /\ ScenIdle
    /\ mroutine \in {"show_alarms", "hide_alarms"}
    /\ icon \in {"eye", "eye-slash", "other"}
    /\ startIcon = icon
    /\ clickWorks \in BOOLEAN
    /\ togglePending = FALSE
    /\ mpc = "start"
    /\ melapsed = 0
    /\ mres = "none"
    /\ readAfter = "none"

mapInputs == <<mroutine, startIcon, clickWorks>>

\* The routine reads the status: it returns, clicks the tile or raises.
MapStart ==
    /\ UNCHANGED mapFrame
    /\ mroutine # "none" /\ mpc = "start"
    /\ LET status == GetAlarmsStatus(icon)
       IN  IF status = AlreadyStatus(mroutine)
           THEN /\ mpc' = "after" /\ mres' = "returned"
                /\ UNCHANGED togglePending
           ELSE IF status = ClicksInStatus(mroutine)
           THEN /\ togglePending' = clickWorks
                /\ mpc' = "wait"
                /\ UNCHANGED mres
           ELSE /\ mpc' = "done" /\ mres' = "raised"
                /\ UNCHANGED togglePending
    /\ UNCHANGED <<mapInputs, icon, melapsed, readAfter>>

\* The application acts on the click.
AppToggles ==
    /\ UNCHANGED mapFrame
    /\ mpc \in {"wait", "after"} /\ togglePending
    /\ icon' = Toggle(icon)
    /\ togglePending' = FALSE
    /\ UNCHANGED <<mapInputs, mpc, melapsed, mres, readAfter>>

\* One poll of the routine's wait_until.
MapPoll ==
    /\ UNCHANGED mapFrame
    /\ mpc = "wait" /\ melapsed < AlarmsTimeoutMs
    /\ IF GetAlarmsStatus(icon) = WaitedStatus(mroutine)
       THEN /\ mpc' = "after" /\ mres' = "returned"
            /\ UNCHANGED melapsed
       ELSE /\ melapsed' = melapsed + AlarmsIntervalMs
            /\ UNCHANGED <<mpc, mres>>
    /\ UNCHANGED <<mapInputs, icon, togglePending, readAfter>>

\* The wait_until reaches its deadline: the routine raises.
MapTimeout ==
    /\ UNCHANGED mapFrame
    /\ mpc = "wait" /\ melapsed >= AlarmsTimeoutMs
    /\ mpc' = "done" /\ mres' = "raised"
    /\ UNCHANGED <<mapInputs, icon, togglePending, melapsed, readAfter>>

\* The caller reads get_alarms_status() after the routine returned.
ReadStatus ==
    /\ UNCHANGED mapFrame
    /\ mpc = "after"
    /\ readAfter' = GetAlarmsStatus(icon)
    /\ mpc' = "done"
    /\ UNCHANGED <<mapInputs, icon, togglePending, melapsed, mres>>

NextMap ==
    \/ MapStart
    \/ AppToggles
    \/ MapPoll
    \/ MapTimeout
    \/ ReadStatus

SpecMap == InitMap /\ [][NextMap]_vars




\* ------------------------------------------------ shapes of predicate
Done == pc = "done"
TimedOut == Done /\ error.kind = "AssertionError"
ValidArgs == timeout_ms > 0 /\ interval_ms > 0 /\ stable_successes > 0
Required == IF variant = "simple" THEN 1 ELSE stable_successes
ScriptIdx == 1..Len(script)

\* The predicate never returns true.
NeverTrue == tail # "true" /\ \A i \in ScriptIdx : script[i] # "true"

\* Once the predicate has returned true it returns true on every later call.
Monotone ==
    /\ tail = "true"
    /\ \A i, j \in ScriptIdx : (i < j /\ script[i] = "true") => script[j] = "true"

\* The first call on which a Monotone predicate returns true.
FirstTrue ==
    CHOOSE n \in 1..(Len(script) + 1) :
        /\ Outcome(n) = "true"
        /\ \A m \in 1..(n - 1) : Outcome(m) # "true"

\* The predicate raises on each scripted call and returns true afterwards.
RaisesThenTrue == tail = "true" /\ \A i \in ScriptIdx : script[i] \in {"raise", "fatal"}
RetryableThenTrue == tail = "true" /\ \A i \in ScriptIdx : script[i] = "raise"
NoFatal == \A i \in ScriptIdx : script[i] # "fatal"

\* n calls fit inside the budget: with polls one interval apart, call n
\* begins strictly before the timeout has elapsed.
Fits(n) == (n - 1) * interval_ms < timeout_ms

\* Evaluations took no measurable time and no sleep was lengthened by jitter.
IdealTiming == ~slow /\ ~jittered

\* ------------------------------------------------------------- claims

\* C1 as stated: whenever a poll made within the budget found a predicate that
\* becomes (and stays) true to be true, wait_until has returned without raising,
\* strictly before the timeout elapsed.
C1_Original ==
    (Done /\ ValidArgs /\ Monotone /\ calls >= FirstTrue)
        => (result = "returned" /\ now < timeout_ms)

\* C1 (amended): for a predicate that becomes and stays true, wait_until returns
\* without raising once stable_successes polls (one, for the simple poller) have
\* found it true; that last poll began strictly before the timeout elapsed, and
\* the return is strictly before the timeout when that evaluation took no
\* measurable time; with negligible evaluation time and no jitter, every poll
\* whose interval multiple lies strictly inside the timeout is made.
C1_Liveness ==
    (Done /\ ValidArgs /\ Monotone) =>
        /\ (calls >= FirstTrue + Required - 1) =>
              /\ result = "returned"
              /\ pollStart < timeout_ms
              /\ (lastEval = 0 => now < timeout_ms)
        /\ (NoFatal /\ IdealTiming /\ Fits(FirstTrue + Required - 1))
              => result = "returned"

C1_Witness ==
    /\ Done /\ ValidArgs /\ Monotone
    /\ FirstTrue >= 2
    /\ calls = FirstTrue + Required - 1
    /\ result = "returned"
    /\ now > 0 /\ now < timeout_ms

\* C2: wait_until returns normally only after the predicate was observed true the
\* required number of consecutive times; every other outcome is a raised error,
\* and the caller never receives a value (the return value is always None).
C2_SuccessOrException ==
    Done =>
        /\ result \in {"returned", "raised"}
        /\ (result = "returned") => (trueRun >= Required /\ retval = "None" /\ error = NoError)
        /\ (result = "raised") => (error.kind # "none" /\ retval = "nothing")
        /\ (trueRun < Required) => result = "raised"

C2_Witness ==
    /\ TimedOut /\ result = "raised" /\ retval = "nothing"
    /\ calls >= 2 /\ trueRun = 0

\* C3: for a predicate that never returns true and whose evaluations take no
\* measurable time, the timeout error is raised no later than
\* timeout + interval after the call began.
C3_TimeoutBound ==
    (TimedOut /\ ValidArgs /\ NeverTrue /\ ~slow) => now <= timeout_ms + interval_ms

C3_Witness ==
    /\ TimedOut /\ ValidArgs /\ NeverTrue /\ ~slow
    /\ calls >= 2
    /\ now > timeout_ms

\* C4 as stated: for a predicate that never returns true, the attempt count in
\* the timeout error is floor(timeout / interval) plus or minus 1 (read with the
\* negligible evaluation time of the sentence the claim comes from).
C4_Original ==
    (TimedOut /\ ValidArgs /\ NeverTrue /\ variant = "advanced" /\ ~slow) =>
        /\ error.attempts >= (timeout_ms \div interval_ms) - 1
        /\ error.attempts <= (timeout_ms \div interval_ms) + 1

\* C4 (amended): for a predicate that never returns true, the reported attempt
\* count is the number of evaluations made, at least 1 and at most
\* floor(timeout / interval) + 1; it is at least floor(timeout / interval) when
\* evaluations take no measurable time and no jitter is added.
C4_AttemptBound ==
    (TimedOut /\ ValidArgs /\ NeverTrue /\ variant = "advanced") =>
        /\ error.attempts = calls
        /\ error.attempts >= 1
        /\ error.attempts <= (timeout_ms \div interval_ms) + 1
        /\ IdealTiming => error.attempts >= timeout_ms \div interval_ms

C4_Witness ==
    /\ TimedOut /\ ValidArgs /\ NeverTrue /\ variant = "advanced"
    /\ error.attempts >= 2
    /\ error.attempts < (timeout_ms \div interval_ms) - 1

\* C5 as stated: a predicate that raises on its first k calls and returns true
\* from call k+1 on makes wait_until return, whenever k+1 calls fit in the budget.
C5_Original ==
    (Done /\ ValidArgs /\ RaisesThenTrue /\ IdealTiming /\ Fits(Len(script) + 1))
        => result = "returned"

\* C5 (amended): a predicate that raises, on each of its first k calls, an
\* exception the poller's except clause matches and returns true from call k+1
\* on makes wait_until return whenever k + stable_successes calls are made, and
\* they are made whenever they fit in the budget (negligible evaluation time,
\* no jitter).
C5_Tolerance ==
    (Done /\ ValidArgs /\ RetryableThenTrue) =>
        /\ (calls >= Len(script) + Required) => result = "returned"
        /\ (IdealTiming /\ Fits(Len(script) + Required)) => result = "returned"

C5_Witness ==
    /\ Done /\ ValidArgs /\ RetryableThenTrue
    /\ Len(script) >= 2
    /\ lastRaise = Len(script)
    /\ result = "returned"

\* C6 as stated: a poll that does not succeed ends only when its timeout
\* expires; no exception thrown by the predicate ends it before the deadline.
C6_Original ==
    (Done /\ ValidArgs /\ result = "raised") =>
        (error.kind = "AssertionError" /\ now >= timeout_ms)

\* C6 (amended): a poll that does not succeed ends only when its timeout
\* expires, unless the predicate raises an exception the poller's except clause
\* does not match (outside allow_exceptions; not an Exception), which
\* propagates at once; a matched exception never ends the poll.
C6_OnlyTimeoutEnds ==
    /\ (Done /\ ValidArgs /\ result = "raised" /\ lastOutcome # "fatal")
          => (error.kind = "AssertionError" /\ now >= timeout_ms)
    /\ (Done /\ error.kind = "propagated") => lastOutcome = "fatal"

C6_Witness ==
    /\ TimedOut /\ ValidArgs
    /\ lastOutcome = "raise"
    /\ lastRaise >= 2
    /\ now >= timeout_ms

\* C7 as stated: a timeout after at least one predicate exception reports the
\* most recently raised exception, whatever the predicate did afterwards.
C7_Original ==
    (TimedOut /\ lastRaise > 0) => error.last_error = lastRaise

\* C7 (amended): the timeout error reports the most recently raised predicate
\* exception exactly when the final poll raised it; a later poll that evaluates
\* without raising clears it and the error then reports no exception.
C7_LastErrorReported ==
    TimedOut => error.last_error = (IF lastOutcome = "raise" THEN lastRaise ELSE 0)

C7_Witness ==
    /\ TimedOut
    /\ lastOutcome = "raise"
    /\ calls >= 2
    /\ error.last_error = calls

\* C8 as stated: every timeout failure carries the elapsed time and the
\* attempt count.
C8_Original ==
    TimedOut => (error.elapsed # NA /\ error.attempts # NA)

\* C8 (amended): the timeout failure of the advanced poller
\* (DomainManagement.wait_until) carries the elapsed time and the number of
\* evaluations; the simple pollers' failure carries the configured timeout
\* instead and no attempt count.
C8_ErrorFields ==
    TimedOut =>
        IF variant = "advanced"
        THEN error.elapsed = now /\ error.attempts = calls /\ error.budget = NA
        ELSE error.elapsed = NA /\ error.attempts = NA /\ error.budget = timeout_ms

C8_Witness ==
    /\ TimedOut /\ variant = "advanced"
    /\ error.attempts >= 2
    /\ error.elapsed >= timeout_ms /\ slow

ReaderDone == rpc = "done"
RowSet(rows) == {rows[i] : i \in 1..Len(rows)}
NoDuplicates(rows) == \A i, j \in 1..Len(rows) : rows[i] = rows[j] => i = j

\* C10: on a table of P pages of R distinct rows whose pages do change after
\* each click on Next, a paginated read returns exactly the P*R rows, each once.
C10_Original ==
    (ReaderDone /\ hasPager /\ rerr # "page_unchanged") =>
        /\ rres = "returned"
        /\ Len(all_rows) = pages * rowsPerPage
        /\ RowSet(all_rows) = TableRows
        /\ NoDuplicates(all_rows)

\* The rows of the first page, which every reader reads before it returns.
FirstPageRows == {PageRows(1)[i] : i \in 1..rowsPerPage}

\* C24: a paginated reader merges two rows as duplicates only if they agree
\* on every (column, value) pair; two rows that differ in any column value
\* are both present in the result.  The rows of the table are pairwise
\* different, so each row the reader has read is in what it returns.
C24_Original ==
    (ReaderDone /\ rres = "returned") => FirstPageRows \subseteq RowSet(all_rows)

\* The click on Next the reader made last has not changed the table.
PageUnchanged == target # shown

\* C11: if the table does not change after a reader clicked Next, the read
\* raises; it does not return the rows collected so far.
C11_Original ==
    (ReaderDone /\ PageUnchanged) => rres = "raised"

\* Clicks on Next made so far: get_all_events counts them in its loop,
\* get_all_alarms clicks once per page_idx passed, read_all_pages_from_table
\* waits for every click to take effect.
Advances ==
    CASE reader = "events" -> iter
      [] reader = "alarms" -> IF hasPager /\ iter >= 1 THEN iter - 1 ELSE 0
      [] reader = "services" -> target - 1
      [] OTHER -> 0

\* C12 as stated: every reader stops after a fixed number of advances
\* (max_pages where given, MAX_SCROLL_PAGES otherwise), whatever the table.
C12_Original ==
    Advances <= (IF max_pages # 0 THEN max_pages ELSE MAX_SCROLL_PAGES)

\* The most advances each reader can make.
AdvanceLimit ==
    CASE reader = "events" -> Min(max_pages, pages - 1)
      [] reader = "alarms" -> Min(AlarmsTotalPages(max_pages, hasPager, pages), pages) - 1
      [] reader = "services" -> pages - 1
      [] OTHER -> 0

\* C12 (amended): every paginated read over a finite table terminates; no
\* reader advances while Next is absent or disabled; get_all_events advances at
\* most max_pages times and get_all_alarms fewer than total_pages times, while
\* read_all_pages_from_table has no cap of its own and advances up to P - 1
\* times, until Next is disabled or a wait times out.
C12_Terminates ==
    /\ <>ReaderDone
    /\ [](Advances <= AdvanceLimit)
    /\ [][(NextDisabled \/ ~hasPager) => Advances' = Advances]_vars

C12_Witness ==
    /\ ReaderDone /\ reader = "services" /\ rres = "returned"
    /\ Advances > MAX_SCROLL_PAGES
    /\ Len(all_rows) = pages * rowsPerPage

\* ------------------------------------------- virtualized list selector
SelDone == spc = "done"
AllDevices == 1..nDevices

\* C13: on a virtualized list, whenever set_all_devices_filterBy_devices
\* returns without raising, all N device rows are checked; a row left
\* unchecked makes the routine report failure.
C13_Original ==
    (routine = "set_all" /\ virtualized /\ SelDone /\ sres = "returned")
        => checked = AllDevices

\* C14: get_all_selected_devices_filterBy_devices returns exactly the selected
\* devices S, each once, whatever N and V are.
C14_Original ==
    (routine \in {"read_alarms", "read_services"} /\ SelDone)
        => (SeqRange(out) = checked /\ Len(out) = Cardinality(checked))

\* C15: at every scroll position the per-row loop handles exactly the rendered
\* rows without the sentinel row "All".
C15_Original ==
    visitedAt # NA => visited = Rendered(visitedAt) \ {0}

InPass == routine = "set_all" /\ spc \in {"pass1", "pass2"}

\* An iteration of a pass reaches scroll_page_down().
PassAdvance == InPass /\ spc' = spc /\ step' = step + 1

\* C26: each top-to-bottom pass of the select-all routine advances the scroll
\* position at most 60 times, and makes no further advance once
\* scrollTop + clientHeight >= scrollHeight - 2 or once scrollTop is
\* unchanged since the previous iteration.
C26_PassBounded ==
    [][PassAdvance =>
          /\ step < MAX_SCROLL_PAGES
          /\ scrollTop + ClientHeight < ScrollHeight - BottomTolerance
          /\ scrollTop # last_scroll_top]_vars

\* A pass has advanced 60 times on a list it has not reached the bottom of.
C26_Witness ==
    /\ InPass /\ step = MAX_SCROLL_PAGES
    /\ scrollTop + ClientHeight < ScrollHeight - BottomTolerance

\* ------------------------------------------------ selected-reader scan
InScan == routine = "read_alarms" /\ spc = "scan"

\* C27: the selected-reader scan ends exactly when either the scroller is at
\* the bottom and 5 consecutive scroll steps found no new checked row, or
\* the step cap (120) is reached; in both cases it returns the rows collected
\* so far without raising.
C27_ScanEnds ==
    [][InScan =>
          /\ (spc' = "done") <=>
                 \/ step >= MAX_SCROLL_STEPS
                 \/ /\ scrollTop + ClientHeight >= ScrollHeight - BottomTolerance
                    /\ stable' >= STABLE_STEPS_TO_STOP
          /\ (spc' = "done") =>
                 /\ sres' = "returned"
                 /\ Len(out') >= Len(out)
                 /\ SubSeq(out', 1, Len(out)) = out
          /\ (spc' # "done") =>
                 /\ spc' = "scan" /\ step' = step + 1 /\ sres' = "none"]_vars

\* The scan was cut off by the step cap before it reached the bottom.
C27_Witness ==
    /\ routine = "read_alarms" /\ spc = "done" /\ sres = "returned"
    /\ step = MAX_SCROLL_STEPS
    /\ scrollTop + ClientHeight < ScrollHeight - BottomTolerance

\* ------------------------------------------------- modal-bearing flows
FlowDone == fpc = "done"

C18_Original ==
    (flow \in MoveFlows /\ FlowDone /\ "message" \in appeared)
        => (fres = "raised" /\ errText \in {"verbatim", "paraphrase"} /\ ~msgOpen)

\* ----------------------------------------------------- scenario scripts
ScenOver == scen \in {"finished", "aborted"}

\* C19: a failure inside a step is caught and reported, and every later step
\* is still executed: when the scenario run ends, run_step has run and
\* reported every step.
C19_Original ==
    ScenOver => Len(results) = Len(steps)

\* ------------------------------------------------------- alarms tile
\* C20: when show_alarms returns without raising, get_alarms_status() read
\* right afterwards is "shown"; when the alarms were hidden and have not
\* become shown, show_alarms raises.
C20_Original ==
    (mroutine = "show_alarms" /\ mpc = "done") =>
        /\ mres = "returned" => readAfter = "shown"
        /\ (GetAlarmsStatus(startIcon) = "hidden" /\ GetAlarmsStatus(icon) # "shown")
              => mres = "raised"

\* ------------------------------------------- frames of the later parts
CoreIdle ==
    PollerIdle /\ ReaderIdle /\ SelIdle /\ FlowIdle /\ ScenIdle /\ MapIdle

navFrame == <<coreVars, rxVars, chVars, cdVars, tgVars>>
NavRestIdle == CoreIdle /\ RxIdle /\ ChIdle /\ CdIdle /\ TgIdle

rxFrame == <<coreVars, navVars, chVars, cdVars, tgVars>>
RxRestIdle == CoreIdle /\ NavIdle /\ ChIdle /\ CdIdle /\ TgIdle

chFrame == <<coreVars, navVars, rxVars, cdVars, tgVars>>
ChRestIdle == CoreIdle /\ NavIdle /\ RxIdle /\ CdIdle /\ TgIdle

cdFrame == <<coreVars, navVars, rxVars, chVars, tgVars>>
CdRestIdle == CoreIdle /\ NavIdle /\ RxIdle /\ ChIdle /\ TgIdle

tgFrame == <<coreVars, navVars, rxVars, chVars, cdVars>>
TgRestIdle == CoreIdle /\ NavIdle /\ RxIdle /\ ChIdle /\ CdIdle

\* ------------------------------------------------ end of the frames

\* ========================================================================
\* The left navigation panel: LeftPanel.click_*
\* ========================================================================
MaxExpectPolls == 3  \* looks expect() takes at the item before it gives up

\* The click_* methods that click an item and expect it to become active.
PanelItems ==
    {"management_map", "service_list", "service_provisioning", "performance",
     "device_discovery", "domain_management", "inventory",
     "alarms_and_events", "common_functions", "user_management",
     "task_manager", "system_configuration"}

\* The classes an exception is an instance of.  The page object imports
\* only Page and expect from playwright.sync_api, so TimeoutError in its
\* except clauses is the built-in one; Playwright's TimeoutError derives
\* from playwright's Error, which derives from Exception.
ClassesOf(exc) ==
    CASE exc = "playwright.TimeoutError" ->
             {"playwright.TimeoutError", "playwright.Error", "Exception"}
      [] exc = "AssertionError" -> {"AssertionError", "Exception"}
      [] exc = "builtins.TimeoutError" ->
             {"builtins.TimeoutError", "OSError", "Exception"}
      [] OTHER -> {}

\* except TimeoutError:
LeftPanelCatches(exc) == "builtins.TimeoutError" \in ClassesOf(exc)

\* What the item's click() raises when the item cannot be clicked in time.
ClickRaises == "playwright.TimeoutError"

\* What expect(...).to_have_class(...) raises when the class never shows.
ExpectRaises == "AssertionError"

InitNav ==
    /\ NavRestIdle
    /\ navItem \in PanelItems
    /\ clickOk \in BOOLEAN
    /\ activates \in BOOLEAN
    /\ navActive = FALSE
    /\ npc = "call" /\ npolls = 0 /\ nres = "none" /\ nexc = "none"

navInputs == <<navItem, clickOk, activates>>

\* self.<item>.click()
NavClick ==
    /\ UNCHANGED navFrame
    /\ npc = "call"
    /\ IF clickOk
         THEN npc' = "expect" /\ nexc' = nexc
         ELSE npc' = "except" /\ nexc' = ClickRaises
    /\ UNCHANGED <<navInputs, navActive, npolls, nres>>

\* The application marks the clicked item active.
AppActivates ==
    /\ UNCHANGED navFrame
    /\ npc = "expect" /\ activates /\ ~navActive
    /\ navActive' = TRUE
    /\ UNCHANGED <<navInputs, npc, npolls, nres, nexc>>

\* expect(...) looks at the item and does not find the class yet.
ExpectPoll ==
    /\ UNCHANGED navFrame
    /\ npc = "expect" /\ ~navActive /\ npolls < MaxExpectPolls
    /\ npolls' = npolls + 1
    /\ UNCHANGED <<navInputs, navActive, npc, nres, nexc>>

\* expect(...) finds the class: sleep, return True.
ExpectPasses ==
    /\ UNCHANGED navFrame
    /\ npc = "expect" /\ navActive
    /\ npc' = "done" /\ nres' = "True"
    /\ UNCHANGED <<navInputs, navActive, npolls, nexc>>

\* expect(...) gives up.
ExpectFails ==
    /\ UNCHANGED navFrame
    /\ npc = "expect" /\ ~navActive /\ npolls >= MaxExpectPolls
    /\ npc' = "except" /\ nexc' = ExpectRaises
    /\ UNCHANGED <<navInputs, navActive, npolls, nres>>

\* except TimeoutError: print(...); return False -- or the exception leaves
\* the method.
NavExcept ==
    /\ UNCHANGED navFrame
    /\ npc = "except"
    /\ npc' = "done"
    /\ IF LeftPanelCatches(nexc)
         THEN nres' = "False" /\ nexc' = "none"
         ELSE nres' = "raised" /\ nexc' = nexc
    /\ UNCHANGED <<navInputs, navActive, npolls>>

NextNav ==
    \/ NavClick
    \/ AppActivates
    \/ ExpectPoll
    \/ ExpectPasses
    \/ ExpectFails
    \/ NavExcept

SpecNav == InitNav /\ [][NextNav]_vars

NavDone == npc = "done"

\* C21: each click_* method returns True when the clicked item became
\* active, and returns False, without raising, when the item did not become
\* active within the wait.
C21_Original ==
    NavDone =>
        \/ nres = "True" /\ navActive
        \/ nres = "False" /\ nexc = "none" /\ ~navActive

\* ========================================================================
\* The fuzzy name regex: nav_text_regex
\* ========================================================================
\* Text is a sequence of characters; "ndash" stands for the en-dash and
\* "\\" for the backslash.
MaxNameLen == 3      \* characters of an element name
MaxPad == 2          \* spaces the application writes on a side of a '/'

Alphabet == {"1", "-", "ndash", "/", " "}

Names == UNION {[1..n -> Alphabet] : n \in 0..MaxNameLen}

RxPages == {"alarms_and_events", "domain_management", "management_map"}

Whitespace == {" "}

Chars(s) == {s[i] : i \in 1..Len(s)}

\* str.strip()
RECURSIVE LStrip(_)
LStrip(s) ==
    IF s # <<>> /\ Head(s) \in Whitespace THEN LStrip(Tail(s)) ELSE s

RECURSIVE RStrip(_)
RStrip(s) ==
    IF s # <<>> /\ s[Len(s)] \in Whitespace
      THEN RStrip(SubSeq(s, 1, Len(s) - 1))
      ELSE s

Strip(s) == RStrip(LStrip(s))

\* The characters re.escape puts a backslash before (Python 3.7 and later):
\* '/' and the en-dash are not among them.
SpecialChars ==
    {"(", ")", "[", "]", "{", "}", "?", "*", "+", "-", "|", "^", "$", "\\",
     ".", "&", "~", "#", " "}

\* re.escape(s)
RECURSIVE ReEscape(_)
ReEscape(s) ==
    IF s = <<>> THEN <<>>
    ELSE (IF Head(s) \in SpecialChars THEN <<"\\", Head(s)>> ELSE <<Head(s)>>)
             \o ReEscape(Tail(s))

StartsWith(s, pre) ==
    Len(s) >= Len(pre) /\ SubSeq(s, 1, Len(pre)) = pre

\* str.replace(old, new): left to right, what was put in is not looked at
\* again.
RECURSIVE Replace(_, _, _)
Replace(s, old, new) ==
    IF s = <<>> THEN <<>>
    ELSE IF StartsWith(s, old)
      THEN new \o Replace(SubSeq(s, Len(old) + 1, Len(s)), old, new)
      ELSE <<Head(s)>> \o Replace(Tail(s), old, new)

\* esc.replace(r"\/", r"\s*/\s*")
SlashSpaces(e) ==
    Replace(e, <<"\\", "/">>, <<"\\", "s", "*", "/", "\\", "s", "*">>)

\* esc.replace(r"\-", r"[-–]"); the Management Map's builder has no such
\* line.
HyphenClass(page, e) ==
    IF page = "management_map" THEN e
    ELSE Replace(e, <<"\\", "-">>, <<"[", "-", "ndash", "]">>)

\* esc.replace(r"\ ", r"\s+")
FlexSpaces(e) == Replace(e, <<"\\", " ">>, <<"\\", "s", "+">>)

\* The pattern text nav_text_regex hands to re.compile.
NavTextRegex(page, name) ==
    FlexSpaces(HyphenClass(page, SlashSpaces(ReEscape(Strip(name)))))

\* Index of the first "]" of a pattern that starts with "[".
RECURSIVE ClassEnd(_, _)
ClassEnd(e, i) ==
    IF i > Len(e) \/ e[i] = "]" THEN i ELSE ClassEnd(e, i + 1)

\* re.compile: the pattern as a sequence of items, each a set of characters,
\* the least number of them, and whether more of them may follow.
RECURSIVE Compile(_)
Compile(e) ==
    IF e = <<>> THEN <<>>
    ELSE IF Head(e) = "\\" /\ Len(e) >= 2 THEN
        IF e[2] = "s" THEN
            IF Len(e) >= 3 /\ e[3] \in {"*", "+"}
              THEN <<[chars |-> Whitespace,
                      min |-> IF e[3] = "*" THEN 0 ELSE 1,
                      many |-> TRUE]>> \o Compile(SubSeq(e, 4, Len(e)))
              ELSE <<[chars |-> Whitespace, min |-> 1, many |-> FALSE]>>
                       \o Compile(SubSeq(e, 3, Len(e)))
        ELSE <<[chars |-> {e[2]}, min |-> 1, many |-> FALSE]>>
                 \o Compile(SubSeq(e, 3, Len(e)))
    ELSE IF Head(e) = "[" THEN
        LET close == ClassEnd(e, 2) IN
        <<[chars |-> {e[j] : j \in 2..(close - 1)}, min |-> 1, many |-> FALSE]>>
            \o Compile(SubSeq(e, close + 1, Len(e)))
    ELSE <<[chars |-> {Head(e)}, min |-> 1, many |-> FALSE]>>
             \o Compile(Tail(e))

\* Number of characters of cs the text has in a row from position p on.
RECURSIVE Run(_, _, _)
Run(cs, text, p) ==
    IF p <= Len(text) /\ text[p] \in cs THEN 1 + Run(cs, text, p + 1) ELSE 0

\* The items match the text from position p on.
RECURSIVE MatchAt(_, _, _)
MatchAt(items, text, p) ==
    IF items = <<>> THEN TRUE
    ELSE LET it == Head(items) IN
        IF it.many
          THEN \E n \in it.min..Run(it.chars, text, p) :
                   MatchAt(Tail(items), text, p + n)
          ELSE /\ p <= Len(text)
               /\ text[p] \in it.chars
               /\ MatchAt(Tail(items), text, p + 1)

\* locator(..., has_text=rx): the regex is found somewhere in the text.
ReSearch(e, text) ==
    \E p \in 1..(Len(text) + 1) : MatchAt(Compile(e), text, p)

Spaces(n) == [i \in 1..n |-> " "]

\* The name with l spaces before and r spaces after each '/'.
SlashSpaced(name, l, r) ==
    Replace(name, <<"/">>, Spaces(l) \o <<"/">> \o Spaces(r))

\* The name with every character a written as b.
Swap(name, a, b) ==
    [i \in 1..Len(name) |-> IF name[i] = a THEN b ELSE name[i]]

Renderings ==
    {"same", "slash_spaced", "hyphen_to_dash", "dash_to_hyphen", "other_digits"}

\* The texts the application may show for the name.
TextsFor(name, how) ==
    CASE how = "same" -> {name}
      [] how = "slash_spaced" ->
             {SlashSpaced(name, l, r) : l \in 0..MaxPad, r \in 0..MaxPad}
      [] how = "hyphen_to_dash" -> {Swap(name, "-", "ndash")}
      [] how = "dash_to_hyphen" -> {Swap(name, "ndash", "-")}
      [] how = "other_digits" -> {Swap(name, "1", "9")}

InitRx ==
    /\ RxRestIdle
    /\ rxPage \in RxPages
    /\ element_name \in Names
    /\ esc = <<>> /\ rendering = "none" /\ uiText = <<>>
    /\ rxpc = "call" /\ rxMatch = FALSE

\* rx = self.nav_text_regex(name)
RxBuild ==
    /\ UNCHANGED rxFrame
    /\ rxpc = "call"
    /\ esc' = NavTextRegex(rxPage, element_name)
    /\ rxpc' = "built"
    /\ UNCHANGED <<rxPage, element_name, rendering, uiText, rxMatch>>

\* The application writes the name in the tree row.
UiRenders ==
    /\ UNCHANGED rxFrame
    /\ rxpc = "built"
    /\ \E how \in Renderings :
         \E t \in TextsFor(element_name, how) :
             rendering' = how /\ uiText' = t
    /\ rxpc' = "rendered"
    /\ UNCHANGED <<rxPage, element_name, esc, rxMatch>>

\* The locator tests the row's text against the regex.
RxSearch ==
    /\ UNCHANGED rxFrame
    /\ rxpc = "rendered"
    /\ rxMatch' = ReSearch(esc, uiText)
    /\ rxpc' = "done"
    /\ UNCHANGED <<rxPage, element_name, esc, rendering, uiText>>

NextRx ==
    \/ RxBuild
    \/ UiRenders
    \/ RxSearch

SpecRx == InitRx /\ [][NextRx]_vars

RxDone == rxpc = "done"

\* C22: for every element name containing '/', the regex built by
\* nav_text_regex matches the name written with zero or more spaces on each
\* side of the '/', and does not match a name with different digits.
C22_Original ==
    (RxDone /\ "/" \in Chars(element_name)) =>
        /\ rendering \in {"same", "slash_spaced"} => rxMatch
        /\ (rendering = "other_digits" /\ "1" \in Chars(element_name))
              => ~rxMatch

\* C23: in every page object that builds a fuzzy name regex, hyphen and
\* en-dash are interchangeable in both directions: the regex built from a
\* name matches that name with any hyphen written as an en-dash and with any
\* en-dash written as a hyphen.
C23_Original ==
    (RxDone /\ rendering \in {"hyphen_to_dash", "dash_to_hyphen"}) => rxMatch

\* ========================================================================
\* The Change Chassis ID flow: change_CHASSIS_ID
\* ========================================================================
ChassisAttempts == 3      \* for attempt in range(1, 4)

\* The steps of one attempt after the mode check, in order.
ChassisSteps == <<"open", "choose", "next", "fill", "save">>

\* What an attempt may fail at.
FailPoints == {"none"} \cup {ChassisSteps[i] : i \in 1..Len(ChassisSteps)}

\* mode not in ("new", "existing")
InvalidMode(m) == m \notin {"new", "existing"}

\* The attempt the for loop runs after attempt a, or none.
LoopHasNext(a) == a < ChassisAttempts

InitCh ==
    /\ ChRestIdle
    /\ to_mode \in {"new", "existing", "other"}
    /\ failAt \in [1..ChassisAttempts -> FailPoints]
    /\ attempt = 0 /\ chStep = 0 /\ chModal = FALSE /\ failed = 0
    /\ chpc = "loop" /\ chres = "none"

chInputs == <<to_mode, failAt>>

\* for attempt in range(1, 4): try: refresh_page; sleep; check the mode.
ChAttempt ==
    /\ UNCHANGED chFrame
    /\ chpc = "loop" /\ LoopHasNext(attempt)
    /\ attempt' = attempt + 1
    /\ chModal' = FALSE
    /\ IF InvalidMode(to_mode)
         THEN chpc' = "except" /\ chStep' = 0
         ELSE chpc' = "steps" /\ chStep' = 1
    /\ UNCHANGED <<chInputs, failed, chres>>

\* One step of the flow: it works, or it raises.
ChStepRuns ==
    /\ UNCHANGED chFrame
    /\ chpc = "steps" /\ chStep <= Len(ChassisSteps)
    /\ IF failAt[attempt] = ChassisSteps[chStep]
         THEN /\ chpc' = "except"
              /\ UNCHANGED <<chStep, chModal>>
         ELSE /\ chStep' = chStep + 1
              /\ chModal' = (ChassisSteps[chStep] # "save")
              /\ chpc' = chpc
    /\ UNCHANGED <<chInputs, attempt, failed, chres>>

\* refresh_page(self.page); return
ChReturn ==
    /\ UNCHANGED chFrame
    /\ chpc = "steps" /\ chStep > Len(ChassisSteps)
    /\ chpc' = "done" /\ chres' = "returned"
    /\ UNCHANGED <<chInputs, attempt, chStep, chModal, failed>>

\* except Exception as e: close the modal if it shows, then
\* raise AssertionError(...).
ChExcept ==
    /\ UNCHANGED chFrame
    /\ chpc = "except"
    /\ chModal' = FALSE
    /\ failed' = failed + 1
    /\ chpc' = "done" /\ chres' = "raised"
    /\ UNCHANGED <<chInputs, attempt, chStep>>

\* Every attempt ends in ChReturn or ChExcept, both of which leave the
\* method: the loop takes no second turn and the raise after it
\* ("... failed after 3 attempts.") is never reached.
NextCh ==
    \/ ChAttempt
    \/ ChStepRuns
    \/ ChReturn
    \/ ChExcept

SpecCh == InitCh /\ [][NextCh]_vars

ChDone == chpc = "done"

\* C25: change_CHASSIS_ID runs the change flow up to three times: a failed
\* attempt is followed by a further attempt, and the failure is raised to the
\* caller only after three attempts have failed.
C25_Original ==
    (ChDone /\ chres = "raised") => failed = ChassisAttempts

\* ========================================================================
\* countdown_sleep
\* ========================================================================
MaxTotal == 6        \* total_seconds ranges over 0..MaxTotal
MaxUpdate == 16      \* update_every ranges over 0..MaxUpdate tenths of a second

Tenths == 10         \* tenths of a second in a second

\* round(x) of Python 3 for x given in tenths: to the nearest integer, a half
\* to the even neighbour.
Round(x10) ==
    LET q == x10 \div Tenths
        r == x10 % Tenths
    IN  IF 2 * r < Tenths THEN q
        ELSE IF 2 * r > Tenths THEN q + 1
        ELSE IF q % 2 = 0 THEN q ELSE q + 1

\* if update_every <= 0: update_every = 1.0
EffectiveUpdate(u) == IF u <= 0 THEN Tenths ELSE u

\* remaining -= update_every; remaining = int(round(remaining))
NextRemaining(rem, u) == Round(rem * Tenths - u)

InitCd ==
    /\ CdRestIdle
    /\ total_seconds \in 0..MaxTotal
    /\ update_every \in 0..MaxUpdate
    /\ remaining = 0 /\ cdBefore = NA /\ slept = NA
    /\ cdpc = "call"

\* The checks before the loop; remaining = total_seconds.
CdEnter ==
    /\ UNCHANGED cdFrame
    /\ cdpc = "call"
    /\ IF total_seconds <= 0
         THEN cdpc' = "done" /\ remaining' = remaining
         ELSE cdpc' = "loop" /\ remaining' = total_seconds
    /\ UNCHANGED <<total_seconds, update_every, cdBefore, slept>>

\* One iteration of `while remaining > 0`.
CdIterate ==
    /\ UNCHANGED cdFrame
    /\ cdpc = "loop" /\ remaining > 0
    /\ slept' = EffectiveUpdate(update_every)
    /\ cdBefore' = remaining
    /\ remaining' = NextRemaining(remaining, EffectiveUpdate(update_every))
    /\ UNCHANGED <<total_seconds, update_every, cdpc>>

\* The loop is left: the last line is written.
CdFinish ==
    /\ UNCHANGED cdFrame
    /\ cdpc = "loop" /\ remaining <= 0
    /\ cdpc' = "done"
    /\ UNCHANGED <<total_seconds, update_every, remaining, cdBefore, slept>>

NextCd ==
    \/ CdEnter
    \/ CdIterate
    \/ CdFinish

SpecCd == InitCd /\ [][NextCd]_vars

\* C28: countdown_sleep terminates for every total_seconds > 0 and every
\* update_every > 0: the remaining time strictly decreases on every loop
\* iteration until it reaches zero.
C28_Original ==
    (total_seconds > 0 /\ update_every > 0 /\ cdpc = "loop" /\ cdBefore # NA)
        => remaining < cdBefore

\* ------------------------------------------------------------ pollers
\* C29: every wait_until call that ends with a timeout error has evaluated
\* its predicate at least once, for every timeout and interval value the
\* poller accepts.
C29_Original ==
    TimedOut => calls >= 1

\* ========================================================================
\* Toggle operations: show_alarms, hide_alarms, set_severity_filter,
\* message_check_exact_match_only, message_uncheck_exact_match_only
\* ========================================================================
MaxTogglePolls == 2  \* polls of a wait before it times out

ToggleOps ==
    {"show_alarms", "hide_alarms", "enable_filter", "disable_filter",
     "message_check_exact_match_only", "message_uncheck_exact_match_only"}

\* The severity tiles set_severity_filter is called for.
SeverityLabels == {"Critical", "Minor", "Cleared"}

\* The state an operation asks for.
Requested(op) ==
    op \in {"show_alarms", "enable_filter", "message_check_exact_match_only"}

\* The state whose appearance the operation waits for after its click:
\* show_alarms waits for get_alarms_status() == "hidden", as hide_alarms does;
\* the others wait for the state they ask for.
Awaited(op) ==
    IF op = "show_alarms" THEN FALSE ELSE Requested(op)

\* Whether the operation clicks: the toggle is not in the requested state.
NeedsClick(op, on) == on # Requested(op)

InitTg ==
    /\ TgRestIdle
    /\ tgOp \in ToggleOps
    /\ tgLabel \in (IF tgOp \in {"enable_filter", "disable_filter"}
                      THEN SeverityLabels ELSE {"none"})
    /\ tgOn \in BOOLEAN
    /\ tgPending = 0 /\ tgCall = 1 /\ tgStart = tgOn /\ tgClicks = 0
    /\ tgPolls = 0 /\ tgOnce = tgOn /\ tgpc = "call" /\ tgres = "none"

tgInputs == <<tgOp, tgLabel>>

\* The call reads the state; it returns at once when the state is the
\* requested one, and clicks the toggle otherwise.
TgBegin ==
    /\ UNCHANGED tgFrame
    /\ tgpc = "call"
    /\ tgStart' = tgOn
    /\ tgPolls' = 0
    /\ IF NeedsClick(tgOp, tgOn)
         THEN /\ tgClicks' = 1
              /\ tgPending' = tgPending + 1
              /\ tgpc' = "wait" /\ tgres' = "none"
         ELSE /\ tgClicks' = 0
              /\ tgPending' = tgPending
              /\ tgpc' = "done" /\ tgres' = "returned"
    /\ tgOnce' = IF tgCall = 1 THEN (IF tgPending' % 2 = 1 THEN ~tgOn ELSE tgOn)
                 ELSE tgOnce
    /\ UNCHANGED <<tgInputs, tgOn, tgCall>>

\* The application acts on a click: the toggle changes over.
TgAppActs ==
    /\ UNCHANGED tgFrame
    /\ tgPending > 0
    /\ tgOn' = ~tgOn
    /\ tgPending' = tgPending - 1
    /\ UNCHANGED <<tgInputs, tgCall, tgStart, tgClicks, tgPolls, tgOnce, tgpc, tgres>>

\* A poll of the wait: the call returns when it sees the awaited state.
TgPoll ==
    /\ UNCHANGED tgFrame
    /\ tgpc = "wait"
    /\ IF tgOn = Awaited(tgOp)
         THEN tgpc' = "done" /\ tgres' = "returned" /\ tgPolls' = tgPolls
         ELSE tgPolls < MaxTogglePolls /\ tgPolls' = tgPolls + 1
              /\ tgpc' = tgpc /\ tgres' = tgres
    /\ UNCHANGED <<tgInputs, tgOn, tgPending, tgCall, tgStart, tgClicks, tgOnce>>

\* The wait times out: the call raises.
TgTimeout ==
    /\ UNCHANGED tgFrame
    /\ tgpc = "wait" /\ tgOn # Awaited(tgOp) /\ tgPolls >= MaxTogglePolls
    /\ tgpc' = "done" /\ tgres' = "raised"
    /\ UNCHANGED <<tgInputs, tgOn, tgPending, tgCall, tgStart, tgClicks, tgPolls,
                   tgOnce>>

\* The first call has returned; the caller makes the same call again.
TgAgain ==
    /\ UNCHANGED tgFrame
    /\ tgpc = "done" /\ tgres = "returned" /\ tgCall = 1
    /\ tgCall' = 2
    /\ tgpc' = "call" /\ tgres' = "none"
    /\ UNCHANGED <<tgInputs, tgOn, tgPending, tgStart, tgClicks, tgPolls, tgOnce>>

NextTg ==
    \/ TgBegin
    \/ TgAppActs
    \/ TgPoll
    \/ TgTimeout
    \/ TgAgain

SpecTg == InitTg /\ [][NextTg]_vars

TgDone == tgpc = "done"

\* The application has acted on every click.
TgSettled == tgPending = 0

\* C30: a toggle operation invoked when the UI is already in the requested
\* state performs no click on the toggle, so invoking it twice in a row
\* leaves the same state as invoking it once.
C30_Original ==
    /\ (TgDone /\ tgStart = Requested(tgOp)) => tgClicks = 0
    /\ (TgDone /\ tgCall = 2 /\ tgres = "returned" /\ TgSettled) => tgOn = tgOnce

====
